---------------------------- MODULE Spec2Model ----------------------------
(***************************************************************************)
(* A model of the raffle forecasting and health-evaluation engine          *)
(* (src/src/raffleModel.ts, the phase tracker in src/unnamed/part_000 and  *)
(* src/web/lib/raffleCalculator.ts).                                       *)
(*                                                                         *)
(* Every operation of the engine is a pure function, so the machine is a   *)
(* caller: from the idle state one function is applied to arguments drawn  *)
(* from bounded sets, and the state then holds the function's name, the    *)
(* arguments it was given and what it returned or threw.                   *)
(*                                                                         *)
(* JavaScript numbers are modelled as exact rationals extended with NaN,   *)
(* +Infinity and -Infinity, plus the two non-numbers null and undefined.   *)
(* Rounding error, overflow to Infinity and the sign of zero are not       *)
(* modelled; division by zero, NaN propagation, comparisons with NaN and   *)
(* the truthiness of 0, NaN and undefined are.                             *)
(***************************************************************************)
EXTENDS Integers, Sequences, FiniteSets, TLC

VARIABLES op, args, ret

vars == <<op, args, ret>>

---------------------------------------------------------------------------
(* JavaScript number values                                                *)

RECURSIVE GCD(_, _)
GCD(a, b) == IF b = 0 THEN a ELSE GCD(b, a % b)

Abs(x) == IF x < 0 THEN -x ELSE x

\* The rational n/d in lowest terms with a positive denominator (d # 0).
Fin(n, d) ==
    LET g == GCD(Abs(n), Abs(d))
        s == IF d < 0 THEN -1 ELSE 1
    IN  [k |-> "fin", n |-> (s * n) \div g, d |-> (s * d) \div g]

Num(i) == [k |-> "fin", n |-> i, d |-> 1]
NaN == [k |-> "nan", n |-> 0, d |-> 1]
PInf == [k |-> "pinf", n |-> 0, d |-> 1]
NInf == [k |-> "ninf", n |-> 0, d |-> 1]
Null == [k |-> "null", n |-> 0, d |-> 1]
Undefined == [k |-> "undef", n |-> 0, d |-> 1]

\* Strings, as a request body carries them: a numeric string holds the number
\* it spells ("18" is NumStr(18)), the empty string and a non-numeric one.
NumStr(i) == [k |-> "str", n |-> i, d |-> 1]
EmptyStr == [k |-> "estr", n |-> 0, d |-> 1]
TextStr == [k |-> "nstr", n |-> 0, d |-> 1]

\* ToNumber: null converts to 0 and undefined to NaN; a numeric string to its
\* number, the empty string to 0 and any other string to NaN.
ToNumber(x) ==
    CASE x.k = "null" -> Num(0)
      [] x.k = "undef" -> NaN
      [] x.k = "str" -> [k |-> "fin", n |-> x.n, d |-> x.d]
      [] x.k = "estr" -> Num(0)
      [] x.k = "nstr" -> NaN
      [] OTHER -> x

\* -1, 0 or 1 for a value that is not NaN.
Sign(x) ==
    CASE x.k = "pinf" -> 1
      [] x.k = "ninf" -> -1
      [] OTHER -> IF x.n > 0 THEN 1 ELSE IF x.n < 0 THEN -1 ELSE 0

SignedInf(s) == IF s > 0 THEN PInf ELSE NInf

IsFinite(x) == ToNumber(x).k = "fin"

NumMul(x, y) ==
    LET a == ToNumber(x)
        b == ToNumber(y)
    IN  IF a.k = "nan" \/ b.k = "nan" THEN NaN
        ELSE IF a.k = "fin" /\ b.k = "fin" THEN
            LET g1 == GCD(Abs(a.n), b.d)
                g2 == GCD(Abs(b.n), a.d)
            IN  IF a.n = 0 \/ b.n = 0 THEN Num(0)
                ELSE [k |-> "fin",
                      n |-> (a.n \div g1) * (b.n \div g2),
                      d |-> (a.d \div g2) * (b.d \div g1)]
        ELSE IF Sign(a) = 0 \/ Sign(b) = 0 THEN NaN
        ELSE SignedInf(Sign(a) * Sign(b))

NumDiv(x, y) ==
    LET a == ToNumber(x)
        b == ToNumber(y)
    IN  IF a.k = "nan" \/ b.k = "nan" THEN NaN
        ELSE IF a.k = "fin" /\ b.k = "fin" THEN
            IF b.n = 0
            THEN (IF a.n = 0 THEN NaN ELSE SignedInf(Sign(a)))
            ELSE NumMul(a, Fin(b.d, b.n))
        ELSE IF a.k # "fin" /\ b.k # "fin" THEN NaN
        ELSE IF a.k = "fin" THEN Num(0)
        ELSE SignedInf(Sign(a) * (IF Sign(b) < 0 THEN -1 ELSE 1))

NumAdd(x, y) ==
    LET a == ToNumber(x)
        b == ToNumber(y)
    IN  IF a.k = "nan" \/ b.k = "nan" THEN NaN
        ELSE IF a.k = "fin" /\ b.k = "fin" THEN
            LET g == GCD(a.d, b.d)
            IN  Fin(a.n * (b.d \div g) + b.n * (a.d \div g), (a.d \div g) * b.d)
        ELSE IF a.k = "fin" THEN b
        ELSE IF b.k = "fin" THEN a
        ELSE IF a.k = b.k THEN a
        ELSE NaN

NumNeg(x) ==
    LET a == ToNumber(x)
    IN  CASE a.k = "nan" -> NaN
          [] a.k = "pinf" -> NInf
          [] a.k = "ninf" -> PInf
          [] OTHER -> [k |-> "fin", n |-> -a.n, d |-> a.d]

NumSub(x, y) == NumAdd(x, NumNeg(y))

\* Math.abs
MathAbs(x) ==
    LET a == ToNumber(x)
    IN  CASE a.k = "nan" -> NaN
          [] a.k = "ninf" -> PInf
          [] a.k = "pinf" -> PInf
          [] OTHER -> [k |-> "fin", n |-> Abs(a.n), d |-> a.d]

\* x < y; every comparison with NaN is false.
NumLt(x, y) ==
    LET a == ToNumber(x)
        b == ToNumber(y)
    IN  IF a.k = "nan" \/ b.k = "nan" THEN FALSE
        ELSE IF a.k = "fin" /\ b.k = "fin" THEN a.n * b.d < b.n * a.d
        ELSE IF a.k = b.k THEN FALSE
        ELSE a.k = "ninf" \/ b.k = "pinf"

NumEq(x, y) ==
    LET a == ToNumber(x)
        b == ToNumber(y)
    IN  a.k # "nan" /\ b.k # "nan" /\ a = b

NumLe(x, y) == NumLt(x, y) \/ NumEq(x, y)
NumGt(x, y) == NumLt(y, x)
NumGe(x, y) == NumLe(y, x)

\* Math.min and Math.max: NaN when either argument is NaN.
MathMin(x, y) ==
    LET a == ToNumber(x)
        b == ToNumber(y)
    IN  IF a.k = "nan" \/ b.k = "nan" THEN NaN
        ELSE IF NumLt(b, a) THEN b ELSE a

MathMax(x, y) ==
    LET a == ToNumber(x)
        b == ToNumber(y)
    IN  IF a.k = "nan" \/ b.k = "nan" THEN NaN
        ELSE IF NumLt(a, b) THEN b ELSE a

\* Floor of the rational n/d, d > 0 (\div rounds toward minus infinity).
FloorDiv(n, d) == n \div d

MathFloor(x) ==
    LET a == ToNumber(x)
    IN  IF a.k = "fin" THEN Num(FloorDiv(a.n, a.d)) ELSE a

\* Math.round: the nearest integer, a half rounding up (floor(x + 1/2)).
MathRound(x) ==
    LET a == ToNumber(x)
    IN  IF a.k = "fin" THEN Num(FloorDiv(2 * a.n + a.d, 2 * a.d)) ELSE a

\* ToBoolean: 0, NaN, null, undefined and the empty string are falsy.
Truthy(x) ==
    CASE x.k = "null" -> FALSE
      [] x.k = "undef" -> FALSE
      [] x.k = "nan" -> FALSE
      [] x.k = "estr" -> FALSE
      [] x.k = "fin" -> x.n # 0
      [] OTHER -> TRUE

\* x || y
LogicalOr(x, y) == IF Truthy(x) THEN x ELSE y

\* x == null
IsNullish(x) == x.k = "null" \/ x.k = "undef"

\* x ?? y
Coalesce(x, y) == IF IsNullish(x) THEN y ELSE x

---------------------------------------------------------------------------
(* src/src/raffleModel.ts: thresholds, statuses and evaluateHealth         *)

DEFAULT_THRESHOLDS ==
    [gmvGreen |-> Fin(95, 100), gmvAmber |-> Fin(8, 10),
     retentionGreen |-> Fin(95, 100), retentionAmber |-> Fin(8, 10),
     cacGreenOverTarget |-> Num(1), cacAmberOverTarget |-> Fin(12, 10),
     cpaGreenOverTarget |-> Num(1), cpaAmberOverTarget |-> Fin(12, 10)]

\* Mutant: a progress equal to a threshold does not reach it.
statusFromProgressStrict(progress, greenThreshold, amberThreshold) ==
    IF ~IsFinite(progress) THEN "RED"
    ELSE IF NumGt(progress, greenThreshold) THEN "GREEN"
    ELSE IF NumGt(progress, amberThreshold) THEN "AMBER"
    ELSE "RED"

\* Mutant: the amber threshold is tried before the green one.
statusFromProgressAmberFirst(progress, greenThreshold, amberThreshold) ==
    IF ~IsFinite(progress) THEN "RED"
    ELSE IF NumGe(progress, amberThreshold) THEN "AMBER"
    ELSE IF NumGe(progress, greenThreshold) THEN "GREEN"
    ELSE "RED"

statusFromProgress(progress, greenThreshold, amberThreshold) ==
    IF ~IsFinite(progress) THEN "RED"
    ELSE IF NumGe(progress, greenThreshold) THEN "GREEN"
    ELSE IF NumGe(progress, amberThreshold) THEN "AMBER"
    ELSE "RED"

statusFromOverrun(actual, target, greenOver, amberOver) ==
    IF IsNullish(actual) \/ ~IsFinite(actual) \/ NumLe(target, Num(0)) THEN "RED"
    ELSE LET ratio == NumDiv(actual, target)
         IN  IF NumLe(ratio, greenOver) THEN "GREEN"
             ELSE IF NumLe(ratio, amberOver) THEN "AMBER"
             ELSE "RED"

\* Mutant: day 0 passes the range check.
dayOutOfRangeStrict(k, durationDays) ==
    NumLt(k, Num(0)) \/ NumGt(k, durationDays)

\* if (k <= 0 || k > durationDays) throw
dayOutOfRange(k, durationDays) ==
    NumLe(k, Num(0)) \/ NumGt(k, durationDays)

\* Mutant: the multiplier inverted.
projectionMultiplierInverted(durationDays, k) == NumDiv(k, durationDays)

\* const multiplier = durationDays / k
projectionMultiplier(durationDays, k) == NumDiv(durationDays, k)

\* Mutant: the baseline is used whether or not it is there.
cpaStatusOfUnguarded(baselineCPANew, actualCPA, thresholds) ==
    statusFromOverrun(actualCPA, baselineCPANew,
                      thresholds.cpaGreenOverTarget,
                      thresholds.cpaAmberOverTarget)

\* config.baselineCPANew ? statusFromOverrun(...) : "AMBER"
cpaStatusOf(baselineCPANew, actualCPA, thresholds) ==
    IF Truthy(baselineCPANew)
    THEN statusFromOverrun(actualCPA, baselineCPANew,
                           thresholds.cpaGreenOverTarget,
                           thresholds.cpaAmberOverTarget)
    ELSE "AMBER"

\* Mutant: the retention status joins the roll-up.
rollupStatusesWithRetention(gmvStatus, cpaStatus, cacStatus, retentionStatus) ==
    <<gmvStatus, cpaStatus, cacStatus, retentionStatus>>

\* const statuses = [gmvStatus, cpaStatus, cacStatus]
rollupStatuses(gmvStatus, cpaStatus, cacStatus, retentionStatus) ==
    <<gmvStatus, cpaStatus, cacStatus>>

\* statuses.includes("RED") ? "RED" : statuses.includes("AMBER") ? "AMBER" : "GREEN"
overallStatusOf(statuses) ==
    IF \E i \in DOMAIN statuses : statuses[i] = "RED" THEN "RED"
    ELSE IF \E i \in DOMAIN statuses : statuses[i] = "AMBER" THEN "AMBER"
    ELSE "GREEN"

healthNotes(gmvStatus, cpaStatus, cacStatus, retentionStatus) ==
    (IF gmvStatus = "RED" THEN <<"gmv_red">>
     ELSE IF gmvStatus = "AMBER" THEN <<"gmv_amber">> ELSE <<>>)
    \o (IF cpaStatus = "RED" THEN <<"cpa_red">> ELSE <<>>)
    \o (IF cacStatus = "RED" THEN <<"cac_red">> ELSE <<>>)
    \o (IF retentionStatus = "RED" THEN <<"retention_red">> ELSE <<>>)

Throw(e) == [kind |-> "throw", error |-> e]
Return(v) == [kind |-> "return", value |-> v]

\* A variant that divides whatever the number of orders is.
actualCPAOfUnguarded(snapshot) ==
    NumDiv(snapshot.spendToDate, snapshot.ordersToDate)

\* snapshot.ordersToDate > 0 ? snapshot.spendToDate / snapshot.ordersToDate : null
actualCPAOf(snapshot) ==
    IF NumGt(snapshot.ordersToDate, Num(0))
    THEN NumDiv(snapshot.spendToDate, snapshot.ordersToDate) ELSE Null

evaluateHealth(config, forecast, snapshot, thresholds) ==
    LET durationDays == forecast.durationDays
        targetCACNew == forecast.targetCACNew
        expectedNewCustomers == forecast.expectedNewCustomers
        expectedRetainedCustomers == forecast.expectedRetainedCustomers
        k == snapshot.dayNumber
    IN  IF dayOutOfRange(k, durationDays) THEN Throw("dayNumber out of range")
        ELSE
        LET multiplier == projectionMultiplier(durationDays, k)
            gmvProjected == NumMul(snapshot.gmvToDate, multiplier)
            spendProjected == NumMul(snapshot.spendToDate, multiplier)
            newCustomersProjected == NumMul(snapshot.newCustomersToDate, multiplier)
            retainedCustomersProjected ==
                NumMul(snapshot.retainedCustomersToDate, multiplier)
            gmvProgress ==
                IF NumGt(forecast.gmvTotalForecast, Num(0))
                THEN NumDiv(gmvProjected, forecast.gmvTotalForecast) ELSE Num(0)
            newUserProgress ==
                IF NumGt(expectedNewCustomers, Num(0))
                THEN NumDiv(newCustomersProjected, expectedNewCustomers) ELSE Num(0)
            retainedProgress ==
                IF NumGt(expectedRetainedCustomers, Num(0))
                THEN NumDiv(retainedCustomersProjected, expectedRetainedCustomers)
                ELSE Num(0)
            spendUtilisation ==
                IF NumGt(config.marketingBudgetTotal, Num(0))
                THEN NumDiv(spendProjected, config.marketingBudgetTotal) ELSE Num(0)
            actualCPA == actualCPAOf(snapshot)
            acquisitionSpend ==
                Coalesce(snapshot.acquisitionSpendToDate, snapshot.spendToDate)
            actualCACNew ==
                IF NumGt(snapshot.newCustomersToDate, Num(0))
                THEN NumDiv(acquisitionSpend, snapshot.newCustomersToDate) ELSE Null
            gmvStatus ==
                statusFromProgress(gmvProgress, thresholds.gmvGreen, thresholds.gmvAmber)
            retentionStatus ==
                statusFromProgress(retainedProgress, thresholds.retentionGreen,
                                   thresholds.retentionAmber)
            cpaStatus == cpaStatusOf(config.baselineCPANew, actualCPA, thresholds)
            cacStatus ==
                statusFromOverrun(actualCACNew, targetCACNew,
                                  thresholds.cacGreenOverTarget,
                                  thresholds.cacAmberOverTarget)
            overallStatus ==
                overallStatusOf(rollupStatuses(gmvStatus, cpaStatus, cacStatus,
                                               retentionStatus))
        IN  Return([dayNumber |-> k,
                    gmvProjected |-> gmvProjected,
                    gmvProgress |-> gmvProgress,
                    spendProjected |-> spendProjected,
                    spendUtilisation |-> spendUtilisation,
                    newCustomersProjected |-> newCustomersProjected,
                    newUserProgress |-> newUserProgress,
                    retainedCustomersProjected |-> retainedCustomersProjected,
                    retainedProgress |-> retainedProgress,
                    actualCPA |-> actualCPA,
                    actualCACNew |-> actualCACNew,
                    gmvStatus |-> gmvStatus,
                    cpaStatus |-> cpaStatus,
                    cacStatus |-> cacStatus,
                    retentionStatus |-> retentionStatus,
                    overallStatus |-> overallStatus,
                    notes |-> healthNotes(gmvStatus, cpaStatus, cacStatus,
                                          retentionStatus)])

---------------------------------------------------------------------------
(* Arguments of evaluateHealth                                             *)

\* The longest campaign, in days, of the health evaluations.
MaxDuration == 3

\* Thresholds whose green cutoff lies on the other side of the amber one.
SwappedThresholds ==
    [gmvGreen |-> Fin(8, 10), gmvAmber |-> Fin(95, 100),
     retentionGreen |-> Fin(8, 10), retentionAmber |-> Fin(95, 100),
     cacGreenOverTarget |-> Fin(12, 10), cacAmberOverTarget |-> Num(1),
     cpaGreenOverTarget |-> Fin(12, 10), cpaAmberOverTarget |-> Num(1)]

ThresholdSets == {DEFAULT_THRESHOLDS, SwappedThresholds}

HealthConfig(budget, cpa) ==
    [marketingBudgetTotal |-> budget, baselineCPANew |-> cpa]

HealthForecast(d, tcac, expNew, expRet, gmv) ==
    [durationDays |-> d, targetCACNew |-> tcac, expectedNewCustomers |-> expNew,
     expectedRetainedCustomers |-> expRet, gmvTotalForecast |-> gmv]

HealthSnapshot(k, gmv, spend, new, retained, orders, acq) ==
    [dayNumber |-> k, gmvToDate |-> gmv, spendToDate |-> spend,
     newCustomersToDate |-> new, retainedCustomersToDate |-> retained,
     ordersToDate |-> orders, acquisitionSpendToDate |-> acq]

\* Every day of every duration, in and out of range, against GMV and
\* retention to date; the cost figures sit on their targets.
ProgressArgs ==
    { [config |-> HealthConfig(Num(100), Num(10)),
       forecast |-> HealthForecast(Num(d), Num(10), Num(1), expRet, fc),
       snapshot |-> HealthSnapshot(Num(k), gmv, Num(10), new, retained,
                                   Num(1), Undefined),
       thresholds |-> t] :
        d \in 0..MaxDuration, k \in -1..(MaxDuration + 1),
        gmv \in {Num(0), Num(80), Num(95), PInf, NaN},
        fc \in {Num(0), Num(100)},
        retained \in {Num(0), Num(80), Num(95)},
        expRet \in {Num(0), Num(100)},
        new \in {Num(0), Num(1)},
        t \in ThresholdSets }

\* Spend, orders, customers and the cost targets, on day 0 or 1 of a
\* campaign of one or MaxDuration days; the budget and the forecast at
\* their targets, at zero, or negative.
CostArgs ==
    { [config |-> HealthConfig(be[1], cpa),
       forecast |-> HealthForecast(Num(dk[1]), tcac, be[2], be[3], be[3]),
       snapshot |-> HealthSnapshot(Num(dk[2]), gmv, spend, new, Num(95),
                                   orders, acq),
       thresholds |-> t] :
        dk \in {<<1, 1>>, <<MaxDuration, 1>>, <<1, 0>>},
        be \in {<<Num(100), Num(1), Num(100)>>, <<Num(0), Num(0), Num(100)>>,
                <<Num(-100), Num(-1), Num(-100)>>},
        cpa \in {Undefined, Num(0), Num(10), Num(-10)},
        tcac \in {Num(-10), Num(0), Num(10)},
        gmv \in {Num(0), Num(80), Num(95)},
        spend \in {Num(10), Num(12), Num(13), PInf},
        acq \in {Undefined, Num(12)},
        new \in {Num(0), Num(1)},
        orders \in {Num(0), Num(1)},
        t \in ThresholdSets }

HealthArgs == ProgressArgs \cup CostArgs

EvaluateHealth ==
    /\ op = "idle"
    /\ \E a \in HealthArgs :
        /\ op' = "evaluateHealth"
        /\ args' = a
        /\ ret' = evaluateHealth(a.config, a.forecast, a.snapshot, a.thresholds)

---------------------------------------------------------------------------
(* Two GMV progress values under the same thresholds                       *)

ProgressValues ==
    {Fin(i, 20) : i \in 14..21} \cup {Num(0), Num(2), PInf, NInf, NaN}

ThresholdValues == {Fin(8, 10), Fin(95, 100)}

\* statusFromProgress applied to two progress values, as evaluateHealth
\* applies it to gmvProgress with thresholds.gmvGreen and gmvAmber.
CompareGmvStatuses ==
    /\ op = "idle"
    /\ \E p1 \in ProgressValues, p2 \in ProgressValues,
          green \in ThresholdValues, amber \in ThresholdValues :
        /\ op' = "statusFromProgress"
        /\ args' = [p1 |-> p1, p2 |-> p2, gmvGreen |-> green, gmvAmber |-> amber]
        /\ ret' = [kind |-> "return",
                   s1 |-> statusFromProgress(p1, green, amber),
                   s2 |-> statusFromProgress(p2, green, amber)]

---------------------------------------------------------------------------
(* src/unnamed/part_000: phase health                                      *)

\* A recommendation: which text it is and the numbers printed in it.
Note(tag, amount, other) == [tag |-> tag, amount |-> amount, other |-> other]

\* campaign.phases.find((p) => p.id === snapshot.phaseId)
findPhase(phases, phaseId) ==
    LET hits == {i \in DOMAIN phases : phases[i].id = phaseId}
    IN  IF hits = {} THEN Undefined
        ELSE phases[CHOOSE i \in hits : \A j \in hits : i <= j]

\* issues.some(issue => issue.includes("_red")) ? "RED" : ... "_amber" ...
statusFromIssues(issues) ==
    IF \E i \in DOMAIN issues : issues[i] \in {"gmv_red", "cac_red",
                                   "campaign_gmv_red", "campaign_cac_red"}
    THEN "RED"
    ELSE IF \E i \in DOMAIN issues : issues[i] \in {"gmv_amber", "cac_amber",
                                   "campaign_gmv_amber", "campaign_cac_amber"}
    THEN "AMBER"
    ELSE "GREEN"

SeqIncludes(seq, x) == \E i \in DOMAIN seq : seq[i] = x

\* A variant that pushes no projection summary.
projectionSummaryOmitted(metrics) == <<>>

\* The projection summary pushed last: the rounded projected GMV of the
\* phase against the phase's target GMV.
projectionSummary(metrics) ==
    <<Note("summary", MathRound(metrics.gmvPhaseProjected),
           metrics.phase.targetGMV)>>

generateRecommendations(phaseIssues, campaignIssues, metrics) ==
    LET hasGMVPhaseRed == SeqIncludes(phaseIssues, "gmv_red")
        hasGMVPhaseAmber == SeqIncludes(phaseIssues, "gmv_amber")
        hasCACRed == SeqIncludes(phaseIssues, "cac_red")
        hasCACAmber == SeqIncludes(phaseIssues, "cac_amber")
        phase == metrics.phase
        phaseLevel ==
            IF hasGMVPhaseRed /\ ~hasCACRed /\ ~hasCACAmber THEN
                <<Note("raise_aov", Null, Null),
                  Note("boost_aov", phase.expectedAOV,
                       MathRound(NumMul(phase.expectedAOV, Fin(12, 10))))>>
            ELSE IF hasGMVPhaseRed /\ (hasCACRed \/ hasCACAmber) THEN
                <<Note("cut_spend", Null, Null),
                  Note("pause_ads",
                       MathRound(NumMul(phase.targetCAC, Fin(13, 10))), Null)>>
            ELSE IF hasGMVPhaseAmber THEN
                <<Note("gmv_tracking",
                       MathRound(NumMul(metrics.gmvPhaseProgress, Num(100))),
                       Null)>>
            ELSE <<>>
        campaignLevel ==
            IF Len(campaignIssues) > 0 /\ ~hasGMVPhaseRed THEN
                LET shortfall ==
                        NumMul(phase.targetGMV,
                               NumSub(Num(1), metrics.gmvCampaignProgress))
                IN  <<Note("later_phases", Null, Null),
                      Note("shortfall", MathRound(shortfall), Null)>>
            ELSE <<>>
        positive ==
            IF Len(phaseIssues) = 0 /\ Len(campaignIssues) = 0
            THEN <<Note("on_track", Null, Null)>>
            ELSE IF Len(phaseIssues) = 0 /\ Len(campaignIssues) > 0
            THEN <<Note("phase_well", Null, Null)>>
            ELSE <<>>
    IN  phaseLevel \o campaignLevel \o positive
        \o projectionSummary(metrics)

evaluatePhaseHealth(campaign, snapshot, cumulativeStatsToDate) ==
    LET phase == findPhase(campaign.phases, snapshot.phaseId)
    IN  IF phase = Undefined THEN Throw("phase not found")
        ELSE
        LET phaseDuration ==
                NumAdd(NumSub(phase.endDay, phase.startDay), Num(1))
            progressFactor == NumDiv(phaseDuration, snapshot.dayInPhase)
            gmvPhaseProjected == NumMul(snapshot.gmvToDate, progressFactor)
            gmvPhaseProgress == NumDiv(gmvPhaseProjected, phase.targetGMV)
            actualCACPhase ==
                NumDiv(snapshot.spendToDate,
                       MathMax(snapshot.newUsersToDate, Num(1)))
            gmvIssue ==
                IF NumLt(gmvPhaseProgress, Fin(8, 10)) THEN <<"gmv_red">>
                ELSE IF NumLt(gmvPhaseProgress, Fin(95, 100))
                THEN <<"gmv_amber">> ELSE <<>>
            cacRatio == NumDiv(actualCACPhase, phase.targetCAC)
            cacIssue ==
                IF NumGt(cacRatio, Fin(12, 10)) THEN <<"cac_red">>
                ELSE IF NumGt(cacRatio, Num(1)) THEN <<"cac_amber">> ELSE <<>>
            phaseIssues == gmvIssue \o cacIssue
            phaseStatus == statusFromIssues(phaseIssues)
            daysElapsed ==
                NumAdd(NumSub(phase.startDay, Num(1)), snapshot.dayInPhase)
            campaignProgressFactor == NumDiv(campaign.durationDays, daysElapsed)
            gmvCampaignProjected ==
                NumMul(cumulativeStatsToDate.gmvToDate, campaignProgressFactor)
            gmvCampaignProgress == NumDiv(gmvCampaignProjected, campaign.targetGMV)
            actualCACCampaign ==
                NumDiv(cumulativeStatsToDate.spendToDate,
                       MathMax(cumulativeStatsToDate.newUsersToDate, Num(1)))
            campaignTargetCAC ==
                NumDiv(campaign.totalBudget,
                       NumMul(NumDiv(campaign.targetGMV, phase.expectedAOV),
                              Fin(7, 10)))
            campaignGmvIssue ==
                IF NumLt(gmvCampaignProgress, Fin(8, 10))
                THEN <<"campaign_gmv_red">>
                ELSE IF NumLt(gmvCampaignProgress, Fin(95, 100))
                THEN <<"campaign_gmv_amber">> ELSE <<>>
            campaignCACRatio == NumDiv(actualCACCampaign, campaignTargetCAC)
            campaignCacIssue ==
                IF NumGt(campaignCACRatio, Fin(12, 10))
                THEN <<"campaign_cac_red">>
                ELSE IF NumGt(campaignCACRatio, Num(1))
                THEN <<"campaign_cac_amber">> ELSE <<>>
            campaignIssues == campaignGmvIssue \o campaignCacIssue
            campaignStatus == statusFromIssues(campaignIssues)
            notes ==
                generateRecommendations(phaseIssues, campaignIssues,
                    [gmvPhaseProgress |-> gmvPhaseProgress,
                     cacRatio |-> cacRatio,
                     gmvCampaignProgress |-> gmvCampaignProgress,
                     campaignCACRatio |-> campaignCACRatio,
                     gmvPhaseProjected |-> gmvPhaseProjected,
                     phase |-> phase])
        IN  [kind |-> "return",
             value |-> [phaseId |-> snapshot.phaseId,
                        phaseStatus |-> phaseStatus,
                        campaignStatus |-> campaignStatus,
                        projectedGMVPhase |-> MathRound(gmvPhaseProjected),
                        projectedGMVCampaign |->
                            MathRound(gmvCampaignProjected),
                        notes |-> notes],
             locals |-> [phaseIssues |-> phaseIssues,
                         campaignIssues |-> campaignIssues,
                         gmvPhaseProjected |-> gmvPhaseProjected,
                         gmvCampaignProgress |-> gmvCampaignProgress]]

\* The length, in days, of each phase of the campaigns evaluated.
PhaseLen == 2

PhaseOf(id, index, targetCAC) ==
    [id |-> id,
     startDay |-> Num((index - 1) * PhaseLen + 1),
     endDay |-> Num(index * PhaseLen),
     targetGMV |-> Num(500), targetCAC |-> targetCAC,
     expectedAOV |-> Num(40), budget |-> Num(200)]

\* Campaigns of two phases; the campaign's GMV target, and the phases' GMV
\* and CAC targets, positive, zero or (the CAC target) negative.
PhaseCampaigns ==
    { [durationDays |-> Num(2 * PhaseLen), targetGMV |-> g,
       totalBudget |-> Num(400),
       phases |-> <<[PhaseOf("launch", 1, t[2]) EXCEPT !.targetGMV = t[1]],
                    [PhaseOf("mid", 2, t[2]) EXCEPT !.targetGMV = t[1]]>>] :
        g \in {Num(1000), Num(0)},
        t \in {<<Num(500), Num(10)>>, <<Num(500), Num(0)>>,
               <<Num(0), Num(10)>>, <<Num(500), Num(-10)>>} }

PhaseSnapshots ==
    { [phaseId |-> id, dayInPhase |-> Num(day), gmvToDate |-> gmv,
       spendToDate |-> spend, newUsersToDate |-> new,
       returningUsersToDate |-> Num(0), ordersToDate |-> orders] :
        id \in {"launch", "mid", "final"},
        day \in -1..(PhaseLen + 1),
        gmv \in {Num(0), Num(400), Num(500)},
        spend \in {Num(10), Num(13)},
        new \in {Num(0), Num(1)},
        orders \in {Num(0), Num(1)} }

CumulativeStats ==
    { [gmvToDate |-> gmv, spendToDate |-> spend, newUsersToDate |-> new,
       ordersToDate |-> Num(1)] :
        gmv \in {Num(0), Num(1000)},
        spend \in {Num(10), Num(30)},
        new \in {Num(0), Num(1)} }

EvaluatePhaseHealth ==
    /\ op = "idle"
    /\ \E c \in PhaseCampaigns, s \in PhaseSnapshots, cum \in CumulativeStats :
        /\ op' = "evaluatePhaseHealth"
        /\ args' = [campaign |-> c, snapshot |-> s, cumulativeStatsToDate |-> cum]
        /\ ret' = evaluatePhaseHealth(c, s, cum)

---------------------------------------------------------------------------
(* src/src/raffleModel.ts: forecastRaffle                                  *)

\* 1000 * 60 * 60 * 24
msPerDay == 86400000

\* The dates are held as what new Date(s).getTime() gives: milliseconds
\* since the epoch, NaN for a string that is no date.
computeDurationDays(startDate, endDate) ==
    LET diff == NumSub(endDate, startDate)
    IN  NumAdd(MathFloor(NumDiv(diff, Num(msPerDay))), Num(1))

\* targetCACNew > 0 ? budgetNew / targetCACNew : 0
expectedNewCustomersOf(budgetNew, targetCACNew) ==
    IF NumGt(targetCACNew, Num(0)) THEN NumDiv(budgetNew, targetCACNew)
    ELSE Num(0)

\* Mutant: the retention rate is scaled and never capped.
forecastCRRWindowUncapped(baselineCRR20d, durationDays) ==
    NumMul(baselineCRR20d, NumDiv(durationDays, Num(20)))

\* CRRWindow = Math.min(baselineCRR20d * (durationDays / 20), 0.7)
forecastCRRWindow(baselineCRR20d, durationDays) ==
    MathMin(NumMul(baselineCRR20d, NumDiv(durationDays, Num(20))), Fin(7, 10))

forecastRaffle(config) ==
    LET durationDays == computeDurationDays(config.startDate, config.endDate)
        budgetNew == NumMul(config.marketingBudgetTotal, config.budgetSplitNew)
        targetCACNew == NumDiv(config.baselineLTVNew, config.targetLTVToCAC)
        expectedNewCustomers == expectedNewCustomersOf(budgetNew, targetCACNew)
        ordersPerNewCustomerWindow == Num(1)
        gmvNewWindow ==
            NumMul(NumMul(expectedNewCustomers, ordersPerNewCustomerWindow),
                   config.expectedAOVNew)
        CRRWindow == forecastCRRWindow(config.baselineCRR20d, durationDays)
        expectedRetainedCustomers ==
            NumMul(config.baseExistingCustomers, CRRWindow)
        gmvPerRetainedWindow ==
            NumMul(config.baselineGMVPerRetainedUser20d,
                   NumDiv(durationDays, Num(20)))
        gmvRetentionWindow ==
            NumMul(expectedRetainedCustomers, gmvPerRetainedWindow)
        gmvTotalForecast == NumAdd(gmvNewWindow, gmvRetentionWindow)
    IN  [kind |-> "return",
         value |-> [durationDays |-> durationDays,
                    targetCACNew |-> targetCACNew,
                    expectedNewCustomers |-> expectedNewCustomers,
                    expectedRetainedCustomers |-> expectedRetainedCustomers,
                    gmvNewWindow |-> gmvNewWindow,
                    gmvRetentionWindow |-> gmvRetentionWindow,
                    gmvTotalForecast |-> gmvTotalForecast],
         locals |-> [budgetNew |-> budgetNew, CRRWindow |-> CRRWindow]]

---------------------------------------------------------------------------
(* src/web/lib/raffleCalculator.ts: calculateRaffleNeeds                   *)

\* The baselines with the budget split evenly.
DEFAULT_BASELINES_EvenSplit ==
    [baselineLTVNew |-> Num(45), targetLTVToCAC |-> Fin(5, 2),
     baselineCRR20d |-> Fin(8, 100), baselineGMVPerRetainedUser20d |-> Num(35),
     baseExistingCustomers |-> Num(5000), budgetSplitNew |-> Fin(1, 2)]

DEFAULT_BASELINES ==
    [baselineLTVNew |-> Num(45), targetLTVToCAC |-> Fin(5, 2),
     baselineCRR20d |-> Fin(8, 100), baselineGMVPerRetainedUser20d |-> Num(35),
     baseExistingCustomers |-> Num(5000), budgetSplitNew |-> Fin(3, 4)]

\* Math.min(baselineCRR20d * (days / 20), 0.7)
calculatorCRRWindow(baselineCRR20d, days) ==
    MathMin(NumMul(baselineCRR20d, NumDiv(days, Num(20))), Fin(7, 10))

\* const expectedNewUsers = budgetForNew / targetCACNew
calculatorExpectedNewUsers(budgetForNew, targetCACNew) ==
    NumDiv(budgetForNew, targetCACNew)

\* number.toFixed(2), as the number it prints
ToFixed2(x) == NumDiv(MathRound(NumMul(x, Num(100))), Num(100))

\* One pass of the loop over the quarters, q in 1..4.
quarterlyDataPoint(input, adjustedNewUsers, q) ==
    LET durationDays == input.durationDays
        ordersPerNewUser == Num(1)
        daysPerQuarter == NumDiv(durationDays, Num(4))
        dayInCampaign == MathRound(NumMul(Num(q), daysPerQuarter))
        progressRatio == NumDiv(dayInCampaign, durationDays)
        cumulativeNew == NumMul(adjustedNewUsers, progressRatio)
        crrAtDay == calculatorCRRWindow(input.baselineCRR20d, dayInCampaign)
        cumulativeReturning == NumMul(input.baseExistingCustomers, crrAtDay)
        cumulativeTotal == NumAdd(cumulativeNew, cumulativeReturning)
        cumulativeGMVNew ==
            NumMul(NumMul(cumulativeNew, ordersPerNewUser), input.expectedAOVNew)
        gmvPerRetAtDay ==
            NumMul(input.baselineGMVPerRetainedUser20d,
                   NumDiv(dayInCampaign, Num(20)))
        cumulativeGMVRet == NumMul(cumulativeReturning, gmvPerRetAtDay)
        cumulativeGMV == NumAdd(cumulativeGMVNew, cumulativeGMVRet)
        cumulativeOrders ==
            NumAdd(NumMul(cumulativeNew, ordersPerNewUser),
                   NumMul(cumulativeReturning,
                          NumDiv(gmvPerRetAtDay, input.expectedAOVRet)))
        prevNew ==
            IF q > 1
            THEN NumMul(adjustedNewUsers,
                        NumDiv(NumMul(Num(q - 1), daysPerQuarter), durationDays))
            ELSE Num(0)
        prevCrrDay ==
            IF q > 1 THEN MathRound(NumMul(Num(q - 1), daysPerQuarter))
            ELSE Num(0)
        prevCrr == calculatorCRRWindow(input.baselineCRR20d, prevCrrDay)
        prevReturning ==
            IF q > 1 THEN NumMul(input.baseExistingCustomers, prevCrr)
            ELSE Num(0)
        prevGMVNew ==
            NumMul(NumMul(prevNew, ordersPerNewUser), input.expectedAOVNew)
        prevGmvPerRet ==
            NumMul(input.baselineGMVPerRetainedUser20d,
                   NumDiv(prevCrrDay, Num(20)))
        prevGMVRet == NumMul(prevReturning, prevGmvPerRet)
        prevGMV == NumAdd(prevGMVNew, prevGMVRet)
    IN  [quarter |-> q,
         day |-> dayInCampaign,
         cumulativeNewUsers |-> MathRound(cumulativeNew),
         cumulativeReturningUsers |-> MathRound(cumulativeReturning),
         cumulativeTotalUsers |-> MathRound(cumulativeTotal),
         cumulativeGMV |-> MathRound(cumulativeGMV),
         cumulativeOrders |-> MathRound(cumulativeOrders),
         quarterlyNewUsers |-> MathRound(NumSub(cumulativeNew, prevNew)),
         quarterlyReturningUsers |->
             MathRound(NumSub(cumulativeReturning, prevReturning)),
         quarterlyGMV |-> MathRound(NumSub(cumulativeGMV, prevGMV)),
         crrAtDay |-> crrAtDay,
         prevCrr |-> prevCrr]

calculateRaffleNeeds(input) ==
    LET targetGMV == input.targetGMV
        expectedAOVNew == input.expectedAOVNew
        durationDays == input.durationDays
        targetCACNew ==
            Coalesce(input.targetCAC,
                     NumDiv(input.baselineLTVNew, input.targetLTVToCAC))
        budgetForNew == NumMul(input.marketingBudget, input.budgetSplitNew)
        budgetForRetention ==
            NumMul(input.marketingBudget, NumSub(Num(1), input.budgetSplitNew))
        expectedNewUsers == calculatorExpectedNewUsers(budgetForNew, targetCACNew)
        CRRWindow == calculatorCRRWindow(input.baselineCRR20d, durationDays)
        expectedReturningUsers == NumMul(input.baseExistingCustomers, CRRWindow)
        ordersPerNewUser == Num(1)
        gmvFromNew ==
            NumMul(NumMul(expectedNewUsers, ordersPerNewUser), expectedAOVNew)
        gmvPerRetainedWindow ==
            NumMul(input.baselineGMVPerRetainedUser20d,
                   NumDiv(durationDays, Num(20)))
        gmvFromReturning == NumMul(expectedReturningUsers, gmvPerRetainedWindow)
        projectedGMV == NumAdd(gmvFromNew, gmvFromReturning)
        gmvGap == NumSub(targetGMV, projectedGMV)
        short == NumGt(gmvGap, Num(0))
        additionalFromNew == NumMul(gmvGap, Fin(7, 10))
        additionalFromReturning == NumMul(gmvGap, Fin(3, 10))
        adjustedNewUsers ==
            IF short
            THEN NumAdd(expectedNewUsers,
                        NumDiv(additionalFromNew,
                               NumMul(ordersPerNewUser, expectedAOVNew)))
            ELSE expectedNewUsers
        adjustedReturningUsers ==
            IF short
            THEN NumAdd(expectedReturningUsers,
                        NumDiv(additionalFromReturning, gmvPerRetainedWindow))
            ELSE expectedReturningUsers
        totalUsersNeeded == NumAdd(adjustedNewUsers, adjustedReturningUsers)
        totalOrdersNeeded ==
            NumAdd(NumMul(adjustedNewUsers, ordersPerNewUser),
                   NumMul(adjustedReturningUsers,
                          NumDiv(gmvPerRetainedWindow, input.expectedAOVRet)))
        gapNotes ==
            IF short THEN
                <<Note("short_of_target", MathRound(gmvGap), Null)>>
                \o (IF NumGt(gmvGap, NumMul(targetGMV, Fin(2, 10)))
                    THEN <<Note("increase_budget",
                                MathRound(NumDiv(gmvGap, Num(5))),
                                MathRound(NumMul(expectedAOVNew, Fin(12, 10))))>>
                    ELSE <<>>)
                \o <<Note("close_gap",
                          MathRound(NumSub(adjustedNewUsers, expectedNewUsers)),
                          MathRound(NumSub(adjustedReturningUsers,
                                           expectedReturningUsers)))>>
            ELSE IF NumLt(gmvGap, Num(0)) THEN
                <<Note("exceed_target", MathRound(MathAbs(gmvGap)), Null)>>
            ELSE <<Note("well_balanced", Null, Null)>>
        ticketsNeeded == NumDiv(targetGMV, expectedAOVNew)
        suggestedTicketPrice == NumDiv(expectedAOVNew, Num(2))
        ticketNote ==
            <<Note("tickets_needed", MathRound(ticketsNeeded),
                   ToFixed2(suggestedTicketPrice))>>
        daysNote ==
            IF NumLt(durationDays, Num(14))
            THEN <<Note("duration_short", Null, Null)>>
            ELSE IF NumGt(durationDays, Num(30))
            THEN <<Note("duration_long", Null, Null)>>
            ELSE <<Note("duration_good", Null, Null)>>
        quarterlyData ==
            [q \in 1..4 |-> quarterlyDataPoint(input, adjustedNewUsers, q)]
    IN  [kind |-> "return",
         value |->
            [totalUsersNeeded |-> MathRound(totalUsersNeeded),
             newUsersNeeded |-> MathRound(adjustedNewUsers),
             returningUsersNeeded |-> MathRound(adjustedReturningUsers),
             totalOrdersNeeded |-> MathRound(totalOrdersNeeded),
             gmvFromNew |-> MathRound(gmvFromNew),
             gmvFromReturning |-> MathRound(gmvFromReturning),
             targetCACNew |->
                 NumDiv(MathRound(NumMul(targetCACNew, Num(100))), Num(100)),
             budgetForNew |-> MathRound(budgetForNew),
             budgetForRetention |-> MathRound(budgetForRetention),
             projectedGMV |-> MathRound(projectedGMV),
             gmvGap |-> MathRound(gmvGap),
             recommendations |-> gapNotes \o ticketNote \o daysNote,
             quarterlyData |-> quarterlyData],
         locals |->
            [targetCACNew |-> targetCACNew,
             budgetForNew |-> budgetForNew,
             budgetForRetention |-> budgetForRetention,
             expectedNewUsers |-> expectedNewUsers,
             CRRWindow |-> CRRWindow,
             expectedReturningUsers |-> expectedReturningUsers]]

---------------------------------------------------------------------------
(* Arguments of the two forecasts                                          *)

RaffleConfigs ==
    { [startDate |-> Num(0), endDate |-> end,
       marketingBudgetTotal |-> budget, budgetSplitNew |-> Fin(3, 4),
       baselineLTVNew |-> ltv, targetLTVToCAC |-> ratio,
       baselineCRR20d |-> crr, baselineGMVPerRetainedUser20d |-> Num(35),
       baseExistingCustomers |-> base, expectedAOVNew |-> Num(40)] :
        end \in {Num(-1 * msPerDay), Num(0), Num(19 * msPerDay),
                 Num(19 * msPerDay + msPerDay \div 2), Num(23 * msPerDay), NaN},
        budget \in {Num(15000), Num(0)},
        ltv \in {Num(45), Num(0), Num(-45)},
        ratio \in {Fin(5, 2), Num(0)},
        crr \in {Fin(8, 100), Fin(6, 10), Fin(9, 10)},
        base \in {Num(5000), Num(0)} }

CalculatorInputs ==
    { [targetGMV |-> gmv, expectedAOVNew |-> Num(40), expectedAOVRet |-> Num(42),
       marketingBudget |-> budget, durationDays |-> days, targetCAC |-> cac,
       baselineLTVNew |-> DEFAULT_BASELINES.baselineLTVNew,
       targetLTVToCAC |-> ratio, baselineCRR20d |-> crr,
       baselineGMVPerRetainedUser20d |->
           DEFAULT_BASELINES.baselineGMVPerRetainedUser20d,
       baseExistingCustomers |-> base,
       budgetSplitNew |-> DEFAULT_BASELINES.budgetSplitNew] :
        gmv \in {Num(100000), Num(1000)},
        budget \in {Num(15000), Num(0)},
        days \in {Num(10), Num(20), Num(200), NaN},
        cac \in {Undefined, Num(18), Num(0), Num(-18)},
        ratio \in {Fin(5, 2), Num(0)},
        crr \in {Fin(8, 100), Fin(6, 10), Fin(9, 10)},
        base \in {Num(5000), Num(0)} }

ForecastRaffle ==
    /\ op = "idle"
    /\ \E c \in RaffleConfigs :
        /\ op' = "forecastRaffle"
        /\ args' = c
        /\ ret' = forecastRaffle(c)

CalculateRaffleNeeds ==
    /\ op = "idle"
    /\ \E i \in CalculatorInputs :
        /\ op' = "calculateRaffleNeeds"
        /\ args' = i
        /\ ret' = calculateRaffleNeeds(i)

---------------------------------------------------------------------------
(* src/web/app/api/calculate/route.ts: POST                                *)

\* JSON.stringify of a number: NaN and the infinities are written as null.
JsonNumber(x) == IF IsFinite(x) THEN x ELSE Null

\* NextResponse.json(result): the calculator output as the response body.
JsonResult(v) ==
    [totalUsersNeeded |-> JsonNumber(v.totalUsersNeeded),
     newUsersNeeded |-> JsonNumber(v.newUsersNeeded),
     returningUsersNeeded |-> JsonNumber(v.returningUsersNeeded),
     totalOrdersNeeded |-> JsonNumber(v.totalOrdersNeeded),
     gmvFromNew |-> JsonNumber(v.gmvFromNew),
     gmvFromReturning |-> JsonNumber(v.gmvFromReturning),
     targetCACNew |-> JsonNumber(v.targetCACNew),
     budgetForNew |-> JsonNumber(v.budgetForNew),
     budgetForRetention |-> JsonNumber(v.budgetForRetention),
     projectedGMV |-> JsonNumber(v.projectedGMV),
     gmvGap |-> JsonNumber(v.gmvGap),
     recommendations |-> v.recommendations,
     quarterlyData |->
        [q \in 1..4 |->
            [f \in DOMAIN v.quarterlyData[q] \ {"crrAtDay", "prevCrr"} |->
                IF f = "quarter" THEN q
                ELSE JsonNumber(v.quarterlyData[q][f])]]]

\* The override handed to the calculator: targetCAC ? Number(targetCAC) : undefined
requestTargetCAC(targetCAC) ==
    IF Truthy(targetCAC) THEN ToNumber(targetCAC) ELSE Undefined

\* The argument of calculateRaffleNeeds built from the body's fields.
calculatorInputOf(body) ==
    LET aovRet == LogicalOr(body.expectedAOVRet,
                            NumMul(body.expectedAOVNew, Fin(105, 100)))
    IN  [targetGMV |-> ToNumber(body.targetGMV),
         expectedAOVNew |-> ToNumber(body.expectedAOVNew),
         expectedAOVRet |-> ToNumber(aovRet),
         marketingBudget |-> ToNumber(body.marketingBudget),
         durationDays |-> ToNumber(body.durationDays),
         targetCAC |-> requestTargetCAC(body.targetCAC),
         baselineLTVNew |-> DEFAULT_BASELINES.baselineLTVNew,
         targetLTVToCAC |-> DEFAULT_BASELINES.targetLTVToCAC,
         baselineCRR20d |-> DEFAULT_BASELINES.baselineCRR20d,
         baselineGMVPerRetainedUser20d |->
             DEFAULT_BASELINES.baselineGMVPerRetainedUser20d,
         baseExistingCustomers |-> DEFAULT_BASELINES.baseExistingCustomers,
         budgetSplitNew |-> DEFAULT_BASELINES.budgetSplitNew]

\* The handler.  body.json is "invalid" when request.json() rejects, "null"
\* when the body is the JSON null (destructuring it throws) and "object"
\* when the body is an object whose absent fields read as undefined.  The
\* response keeps the calculator's intermediate values beside the body.
POST(body) ==
    IF body.json # "object" THEN
        [kind |-> "response", status |-> 500,
         body |-> [error |-> "Calculation failed"]]
    ELSE IF \/ ~Truthy(body.targetGMV)
            \/ ~Truthy(body.expectedAOVNew)
            \/ ~Truthy(body.marketingBudget)
            \/ ~Truthy(body.durationDays) THEN
        [kind |-> "response", status |-> 400,
         body |-> [error |-> "Missing required fields"]]
    ELSE
        CHOOSE response \in
            { [kind |-> "response", status |-> 200,
               body |-> JsonResult(result.value), locals |-> result.locals] :
                result \in {calculateRaffleNeeds(calculatorInputOf(body))} } :
            TRUE

RequestBodies ==
    { [json |-> "object", targetGMV |-> gmv, expectedAOVNew |-> aov,
       expectedAOVRet |-> aovRet, marketingBudget |-> budget,
       durationDays |-> days, targetCAC |-> cac] :
        gmv \in {Num(100000), Num(0), Undefined},
        aov \in {Num(40), NumStr(40)},
        aovRet \in {Undefined, Num(42)},
        budget \in {Num(15000), Num(0)},
        days \in {Num(20), Null},
        cac \in {Undefined, Null, Num(18), Num(0), Num(-18), NumStr(18),
                 NumStr(0), EmptyStr, TextStr} }
    \cup
    { [json |-> j, targetGMV |-> Undefined, expectedAOVNew |-> Undefined,
       expectedAOVRet |-> Undefined, marketingBudget |-> Undefined,
       durationDays |-> Undefined, targetCAC |-> Undefined] :
        j \in {"invalid", "null"} }

Post ==
    /\ op = "idle"
    /\ \E body \in RequestBodies :
        /\ op' = "POST"
        /\ args' = body
        /\ ret' = POST(body)

---------------------------------------------------------------------------
(* Two calls in a row on the same argument objects                         *)

\* The config object as a forecastRaffle call leaves it: the function reads
\* its fields and assigns none of them.
forecastRaffleArguments(config) == config

\* A variant that fills the optional acquisition spend into the snapshot.
evaluateHealthArgumentsDefaulted(a) ==
    [a EXCEPT !.snapshot.acquisitionSpendToDate =
                  Coalesce(@, a.snapshot.spendToDate)]

\* The config, forecast, snapshot and thresholds objects as an evaluateHealth
\* call leaves them: the function destructures and reads them, builds its
\* statuses and notes in fresh locals, and assigns to no argument.
evaluateHealthArguments(a) == a

\* forecastRaffle called twice on one config object; the second call sees
\* the object as the first call left it.
ForecastRaffleTwice ==
    /\ op = "idle"
    /\ \E c \in RaffleConfigs :
       \E first \in {forecastRaffle(c)} :
       \E c1 \in {forecastRaffleArguments(c)} :
       \E second \in {forecastRaffle(c1)} :
        /\ op' = "forecastRaffleTwice"
        /\ args' = forecastRaffleArguments(c1)
        /\ ret' = [kind |-> "twice", given |-> c,
                   first |-> first, second |-> second]

\* evaluateHealth called twice on the same four objects.
EvaluateHealthTwice ==
    /\ op = "idle"
    /\ \E a \in HealthArgs :
       \E first \in {evaluateHealth(a.config, a.forecast, a.snapshot,
                                     a.thresholds)} :
       \E a1 \in {evaluateHealthArguments(a)} :
       \E second \in {evaluateHealth(a1.config, a1.forecast, a1.snapshot,
                                      a1.thresholds)} :
        /\ op' = "evaluateHealthTwice"
        /\ args' = evaluateHealthArguments(a1)
        /\ ret' = [kind |-> "twice", given |-> a,
                   first |-> first, second |-> second]

---------------------------------------------------------------------------
(* src/unnamed/part_000: planPhase                                         *)

\* A variant that subtracts the rounded counts.
plannedReturningOrdersOfRounded(plannedOrders, plannedNewUsers) ==
    MathMax(Num(0), NumSub(MathRound(plannedOrders), MathRound(plannedNewUsers)))

\* Math.max(0, plannedOrders - plannedNewUsers)
plannedReturningOrdersOf(plannedOrders, plannedNewUsers) ==
    MathMax(Num(0), NumSub(plannedOrders, plannedNewUsers))

planPhase(phase) ==
    LET plannedNewUsers == NumDiv(phase.budget, phase.targetCAC)
        plannedOrders == NumDiv(phase.targetGMV, phase.expectedAOV)
        plannedReturningOrders ==
            plannedReturningOrdersOf(plannedOrders, plannedNewUsers)
    IN  Return([phaseId |-> phase.id,
                label |-> phase.label,
                plannedNewUsers |-> MathRound(plannedNewUsers),
                plannedOrders |-> MathRound(plannedOrders),
                plannedReturningOrders |-> MathRound(plannedReturningOrders),
                budget |-> phase.budget,
                targetGMV |-> phase.targetGMV,
                targetCAC |-> phase.targetCAC,
                expectedAOV |-> phase.expectedAOV])

\* Phases to plan: the figures of a real phase, zero and negative figures,
\* ratios that end in .5 and .4, and a budget that is not a number.
PlanPhases ==
    { [id |-> "launch", label |-> "Phase 1", startDay |-> Num(1),
       endDay |-> Num(5), targetGMV |-> gmv, targetCAC |-> cac,
       expectedAOV |-> aov, budget |-> budget] :
        gmv \in {Num(50000), Num(100), Num(0), Num(-50000)},
        cac \in {Num(18), Num(5), Num(0), Num(-18)},
        aov \in {Num(40), Fin(25, 2), Num(0), Num(-40)},
        budget \in {Num(20000), Num(7), Num(0), Num(-100), NaN} }

PlanPhase ==
    /\ op = "idle"
    /\ \E phase \in PlanPhases :
        /\ op' = "planPhase"
        /\ args' = phase
        /\ ret' = planPhase(phase)

---------------------------------------------------------------------------
(* src/src/raffleModel.ts: calculatePhases                                 *)

CAC_BY_LEVEL ==
    [none |-> Num(0), low |-> Num(10), medium |-> Num(15), high |-> Num(20)]

\* The guard rails on the campaign inputs.
campaignInputsInvalid(campaign) ==
    \/ NumLe(campaign.GMV_total, Num(0))
    \/ NumLe(campaign.AOV_total, Num(0))
    \/ NumLt(campaign.Budget_total, Num(0))

\* ticketsTarget > 0 ? gmvTarget / ticketsTarget : 0
ticketPriceOf(gmvTarget, ticketsTarget) ==
    IF NumGt(ticketsTarget, Num(0)) THEN NumDiv(gmvTarget, ticketsTarget)
    ELSE Num(0)

\* Step 1: the raw metrics of one phase.
rawPhaseOutput(campaign, phase) ==
    LET ticketPrice == ticketPriceOf(phase.gmvTarget, phase.ticketsTarget)
        ordersTarget ==
            IF NumGt(campaign.AOV_total, Num(0))
            THEN NumDiv(phase.gmvTarget, campaign.AOV_total)
            ELSE Num(0)
        cacNominal == CAC_BY_LEVEL[phase.cacLevel]
        budgetRaw == NumMul(cacNominal, ordersTarget)
    IN  [id |-> phase.id, label |-> phase.label,
         ticketsTarget |-> phase.ticketsTarget, gmvTarget |-> phase.gmvTarget,
         ticketPrice |-> ticketPrice, ordersTarget |-> ordersTarget,
         cacNominal |-> cacNominal, budgetRaw |-> budgetRaw,
         budgetFinal |-> Num(0), cacEffective |-> Num(0)]

\* outputs.reduce((sum, p) => sum + p[field], 0)
RECURSIVE reduceSum(_, _)
reduceSum(outputs, field) ==
    IF outputs = <<>> THEN Num(0)
    ELSE NumAdd(reduceSum(SubSeq(outputs, 1, Len(outputs) - 1), field),
                outputs[Len(outputs)][field])

\* A variant that scales only when the raw sum is negative.
noSpendStrict(budget_raw_sum) == NumLt(budget_raw_sum, Num(0))

\* budget_raw_sum <= 0: all phases are "no spend"
noSpend(budget_raw_sum) == NumLe(budget_raw_sum, Num(0))

\* A variant that takes the raw budgets verbatim.
budgetScaleUnit(Budget_total, budget_raw_sum) == Num(1)

\* scale = campaign.Budget_total / budget_raw_sum
budgetScale(Budget_total, budget_raw_sum) == NumDiv(Budget_total, budget_raw_sum)

\* A variant that divides whatever the orders target is.
cacEffectiveOfUnguarded(budgetFinal, ordersTarget) ==
    NumDiv(budgetFinal, ordersTarget)

\* ordersTarget > 0 ? budgetFinal / ordersTarget : 0
cacEffectiveOf(budgetFinal, ordersTarget) ==
    IF NumGt(ordersTarget, Num(0)) THEN NumDiv(budgetFinal, ordersTarget)
    ELSE Num(0)

\* Step 3: the final budget and effective CAC of one phase.
scaledPhaseOutput(phase, scale) ==
    LET budgetFinal == NumMul(phase.budgetRaw, scale)
    IN  [phase EXCEPT !.budgetFinal = budgetFinal,
                      !.cacEffective = cacEffectiveOf(budgetFinal,
                                                      phase.ordersTarget)]

\* Steps 2 to 4 on the raw outputs of step 1.
allocateBudgets(campaign, rawOutputs) ==
    LET budget_raw_sum == reduceSum(rawOutputs, "budgetRaw")
        GMV_phases_sum == reduceSum(rawOutputs, "gmvTarget")
        tickets_phases_sum == reduceSum(rawOutputs, "ticketsTarget")
        orders_phases_sum == reduceSum(rawOutputs, "ordersTarget")
        scaled == ~noSpend(budget_raw_sum)
        scale ==
            IF scaled THEN budgetScale(campaign.Budget_total, budget_raw_sum)
            ELSE Null
        phaseOutputs ==
            IF scaled
            THEN [i \in DOMAIN rawOutputs |->
                    scaledPhaseOutput(rawOutputs[i], scale)]
            ELSE [i \in DOMAIN rawOutputs |->
                    [rawOutputs[i] EXCEPT !.budgetFinal = Num(0),
                                          !.cacEffective = Num(0)]]
        budget_final_sum ==
            IF scaled THEN reduceSum(phaseOutputs, "budgetFinal") ELSE Num(0)
        CAC_effective_overall ==
            IF NumGt(orders_phases_sum, Num(0))
            THEN NumDiv(budget_final_sum, orders_phases_sum)
            ELSE Num(0)
    IN  [kind |-> "return",
         value |->
            [phases |-> phaseOutputs,
             GMV_phases_sum |-> GMV_phases_sum,
             tickets_phases_sum |-> tickets_phases_sum,
             orders_phases_sum |-> orders_phases_sum,
             budget_final_sum |-> budget_final_sum,
             CAC_effective_overall |-> CAC_effective_overall],
         locals |->
            [budget_raw_sum |-> budget_raw_sum, scaled |-> scaled,
             scale |-> scale]]

calculatePhases(campaign, phaseInputs) ==
    IF campaignInputsInvalid(campaign)
    THEN Throw("Campaign inputs must be positive numbers")
    ELSE CHOOSE result \in
            { allocateBudgets(campaign, rawOutputs) :
                rawOutputs \in
                    { [i \in DOMAIN phaseInputs |->
                         rawPhaseOutput(campaign, phaseInputs[i])] } } : TRUE

---------------------------------------------------------------------------
(* src/unnamed/part_000: computePhaseOutput                                *)

CAC_BY_INTENSITY ==
    [none |-> Null, low |-> Num(10), normal |-> Num(15), high |-> Num(25)]

computePhaseOutput(campaign, phase) ==
    LET avgTicketPrice == NumDiv(phase.expectedGMV, phase.ticketsTarget)
        discountFrac ==
            NumSub(Num(1), NumDiv(avgTicketPrice, campaign.baseTicketPrice))
        discountPercent == NumMul(discountFrac, Num(100))
        approxCAC == CAC_BY_INTENSITY[phase.spendIntensity]
        paidUnits ==
            IF IsNullish(approxCAC) THEN Num(0) ELSE phase.ticketsTarget
        marketingBudget ==
            IF IsNullish(approxCAC) THEN Num(0)
            ELSE NumMul(approxCAC, paidUnits)
    IN  Return([id |-> phase.id, label |-> phase.label, days |-> phase.days,
                ticketsTarget |-> phase.ticketsTarget,
                expectedGMV |-> phase.expectedGMV,
                avgTicketPrice |-> avgTicketPrice,
                discountPercent |-> discountPercent,
                approxCAC |-> approxCAC,
                marketingBudget |-> marketingBudget])

---------------------------------------------------------------------------
(* Arguments of the two ticket-phase calculators                           *)

MaxPhases == 2

\* Campaigns: one valid, and each total in turn at zero, negative or NaN.
TicketCampaigns ==
    { [GMV_total |-> t[1], AOV_total |-> t[2], Budget_total |-> t[3],
       CAC_target |-> Num(15), durationDays |-> Num(20)] :
        t \in { <<Num(5000), Num(40), Num(1000)>>,
                <<Num(5000), Fin(25, 2), Num(3000)>>,
                <<Num(5000), Num(40), Num(0)>>,
                <<Num(5000), Num(40), Num(-1)>>,
                <<Num(0), Num(40), Num(1000)>>,
                <<Num(-5000), Num(40), Num(1000)>>,
                <<Num(5000), Num(0), Num(1000)>>,
                <<Num(5000), Num(-40), Num(1000)>>,
                <<Num(5000), NaN, Num(1000)>> } }

\* Phase targets: paid and organic phases, with and without tickets and
\* GMV, and one phase with a negative GMV target.
TicketPhaseShapes ==
    { [ticketsTarget |-> t[1], gmvTarget |-> t[2], cacLevel |-> t[3]] :
        t \in { <<Num(100), Num(1000), "none">>,
                <<Num(100), Num(1000), "low">>,
                <<Num(100), Num(3000), "medium">>,
                <<Num(50), Num(3000), "high">>,
                <<Num(0), Num(0), "none">>,
                <<Num(0), Num(0), "medium">>,
                <<Num(0), Num(1000), "low">>,
                <<Num(100), Num(0), "high">>,
                <<Num(100), Num(-1000), "low">> } }

TicketPhaseLists ==
    UNION { [1..n -> TicketPhaseShapes] : n \in 0..MaxPhases }

phaseInputsOf(shapes) ==
    [i \in DOMAIN shapes |->
        [id |-> i, label |-> "Phase",
         ticketsTarget |-> shapes[i].ticketsTarget,
         gmvTarget |-> shapes[i].gmvTarget,
         cacLevel |-> shapes[i].cacLevel]]

CalculatePhases ==
    /\ op = "idle"
    /\ \E campaign \in TicketCampaigns, shapes \in TicketPhaseLists :
        /\ op' = "calculatePhases"
        /\ args' = [campaign |-> campaign, phaseInputs |-> phaseInputsOf(shapes)]
        /\ ret' = calculatePhases(campaign, phaseInputsOf(shapes))

CampaignTicketParams ==
    { [totalTickets |-> Num(1000), baseTicketPrice |-> price,
       expectedAOV |-> Num(40)] : price \in {Num(10), Num(0)} }

TicketPhaseInputs ==
    { [id |-> 1, label |-> "Phase 1", days |-> Num(5),
       ticketsTarget |-> tickets, expectedGMV |-> gmv,
       spendIntensity |-> intensity] :
        tickets \in {Num(0), Num(100), Num(-100)},
        gmv \in {Num(0), Num(800), Num(1000)},
        intensity \in {"none", "low", "normal", "high"} }

ComputePhaseOutput ==
    /\ op = "idle"
    /\ \E campaign \in CampaignTicketParams, phase \in TicketPhaseInputs :
        /\ op' = "computePhaseOutput"
        /\ args' = [campaign |-> campaign, phase |-> phase]
        /\ ret' = computePhaseOutput(campaign, phase)

---------------------------------------------------------------------------
(* src/src/xmlConfig.ts: loadModelFromXml                                  *)

\* parseFloat of a value of the parsed document: a number, the number a
\* string spells, and NaN for anything else (a missing value included).
parseFloat(x) ==
    CASE x.k = "fin" -> x
      [] x.k = "str" -> [k |-> "fin", n |-> x.n, d |-> x.d]
      [] OTHER -> NaN

\* The thresholds object read from <thresholds>.
thresholdsFromXml(thresholdsRaw) ==
    [gmvGreen |-> parseFloat(thresholdsRaw.gmv.green),
     gmvAmber |-> parseFloat(thresholdsRaw.gmv.amber),
     retentionGreen |-> parseFloat(thresholdsRaw.retentionProgress.green),
     retentionAmber |-> parseFloat(thresholdsRaw.retentionProgress.amber),
     cacGreenOverTarget |-> parseFloat(thresholdsRaw.cacOverTarget.green),
     cacAmberOverTarget |-> parseFloat(thresholdsRaw.cacOverTarget.amber),
     cpaGreenOverTarget |-> parseFloat(thresholdsRaw.cpaOverTarget.green),
     cpaAmberOverTarget |-> parseFloat(thresholdsRaw.cpaOverTarget.amber)]

\* A variant that takes the CPA baseline from the raffle's targets.
raffleBaselineCPANewFromTargets(r) == parseFloat(r.targets.expectedAovNew)

\* baselineCPANew: undefined
raffleBaselineCPANew(r) == Undefined

\* The RaffleConfig built from one <raffle> node.  A date string stands as
\* the time, in ms, that new Date() reads from it.
raffleConfigFromXml(r, baselines) ==
    [id |-> r.id,
     name |-> r.meta.name,
     startDate |-> r.meta.startDate,
     endDate |-> r.meta.endDate,
     targetGMV |-> parseFloat(r.targets.targetGmv),
     averageTicketPrice |-> parseFloat(r.targets.averageTicketPrice),
     marketingBudgetTotal |-> parseFloat(r.budget.total),
     budgetSplitNew |-> parseFloat(r.budget.newSplit),
     budgetSplitRet |-> parseFloat(r.budget.retSplit),
     expectedAOVNew |-> parseFloat(r.targets.expectedAovNew),
     expectedAOVRet |-> parseFloat(r.targets.expectedAovRet),
     baselineLTVNew |-> parseFloat(baselines.newCustomers.ltv),
     targetLTVToCAC |-> parseFloat(baselines.newCustomers.targetLtvToCac),
     baselineCRR20d |-> parseFloat(baselines.retention.crr20d),
     baselineGMVPerRetainedUser20d |->
         parseFloat(baselines.retention.gmvPerRetainedUser20d),
     baseExistingCustomers |->
         parseFloat(baselines.retention.baseExistingCustomers),
     baselineCPANew |-> raffleBaselineCPANew(r)]

\* file.readable is FALSE when readFileSync throws; file.root is
\* doc.raffleHealthModel; root.raffles is root.raffles?.raffle as a list,
\* whether the parser gave one node or an array.  raffleMap.set keeps, for
\* each id, the config of the last node with that id.
loadModelFromXml(file) ==
    IF ~file.readable THEN Throw("ENOENT")
    ELSE IF file.root = Undefined
    THEN Throw("Invalid XML: missing <raffleHealthModel>")
    ELSE IF \/ file.root.baselines = Undefined
            \/ file.root.thresholds = Undefined
            \/ file.root.raffles = <<>>
    THEN Throw("Invalid XML: missing baselines/thresholds/raffles")
    ELSE
        LET raffleArray == file.root.raffles
            ids == {raffleArray[i].id : i \in DOMAIN raffleArray}
            lastOf(id) ==
                CHOOSE i \in DOMAIN raffleArray :
                    /\ raffleArray[i].id = id
                    /\ \A j \in DOMAIN raffleArray :
                          raffleArray[j].id = id => j <= i
        IN  Return([raffles |->
                        [id \in ids |->
                            raffleConfigFromXml(raffleArray[lastOf(id)],
                                                file.root.baselines)],
                    thresholds |-> thresholdsFromXml(file.root.thresholds)])

---------------------------------------------------------------------------
(* src/src/checkRaffle.ts: the command-line entry point                    *)

\* process.argv after the node binary and the script: the i-th positional
\* argument, undefined when it was not given.  argv[1] is the raffle id.
argvAt(argv, i) == IF i <= Len(argv) THEN argv[i] ELSE Undefined

\* !raffleId
noRaffleId(argv) == Len(argv) = 0 \/ argv[1] = ""

\* The snapshot built from the positional arguments.
snapshotFromArgv(argv) ==
    [dayNumber |-> ToNumber(Coalesce(argvAt(argv, 2), Num(1))),
     gmvToDate |-> ToNumber(Coalesce(argvAt(argv, 3), Num(0))),
     spendToDate |-> ToNumber(Coalesce(argvAt(argv, 4), Num(0))),
     newCustomersToDate |-> ToNumber(Coalesce(argvAt(argv, 5), Num(0))),
     retainedCustomersToDate |-> ToNumber(Coalesce(argvAt(argv, 6), Num(0))),
     ordersToDate |-> ToNumber(Coalesce(argvAt(argv, 7), Num(0))),
     acquisitionSpendToDate |->
         IF Truthy(argvAt(argv, 8)) THEN ToNumber(argvAt(argv, 8))
         ELSE Undefined]

\* A lookup that falls back to some loaded config when the id is not a key.
rafflesGetAny(raffles, raffleId) ==
    IF raffleId \in DOMAIN raffles THEN raffles[raffleId]
    ELSE raffles[CHOOSE id \in DOMAIN raffles : TRUE]

\* raffles.get(raffleId)
rafflesGet(raffles, raffleId) ==
    IF raffleId \in DOMAIN raffles THEN raffles[raffleId] ELSE Undefined

\* JSON.stringify of the config: a field that is undefined is left out.
JsonConfig(cfg) ==
    LET texts == {"id", "name", "startDate", "endDate"}
        kept == {f \in DOMAIN cfg \ texts : cfg[f] # Undefined}
    IN  [f \in texts \cup kept |->
            IF f \in texts THEN cfg[f] ELSE JsonNumber(cfg[f])]

\* JSON.stringify of the forecast.
JsonForecast(forecast) ==
    [f \in DOMAIN forecast |-> JsonNumber(forecast[f])]

\* JSON.stringify of the health result.
JsonHealth(health) ==
    LET texts == {"gmvStatus", "cpaStatus", "cacStatus", "retentionStatus",
                  "overallStatus", "notes"}
    IN  [f \in DOMAIN health |->
            IF f \in texts THEN health[f] ELSE JsonNumber(health[f])]

\* The end of the process: its exit code, what it wrote to stdout and to
\* stderr, and the functions of the model it called, in order.  An error
\* nobody catches ends the process with code 1 and its message on stderr.
Exit(code, stdout, stderr, calls) ==
    [kind |-> "exit", code |-> code, stdout |-> stdout, stderr |-> stderr,
     calls |-> calls]

\* const health = evaluateHealth(cfg, forecast, snapshot, thresholds) and
\* the document printed from it; locals keeps the values before printing.
checkRaffleEvaluated(raffleId, cfg, forecast, snapshot, thresholds) ==
    CHOOSE e \in
        { IF health.kind = "throw"
          THEN [kind |-> "exit", code |-> 1, stdout |-> <<>>,
                stderr |-> <<health.error>>,
                calls |-> <<"loadModelFromXml", "forecastRaffle",
                            "evaluateHealth">>,
                locals |-> [config |-> cfg, forecast |-> forecast,
                            snapshot |-> snapshot]]
          ELSE [kind |-> "exit", code |-> 0,
                stdout |-> <<[raffleId |-> raffleId,
                              config |-> JsonConfig(cfg),
                              forecast |-> JsonForecast(forecast),
                              health |-> JsonHealth(health.value)]>>,
                stderr |-> <<>>,
                calls |-> <<"loadModelFromXml", "forecastRaffle",
                            "evaluateHealth">>,
                locals |-> [config |-> cfg, forecast |-> forecast,
                            snapshot |-> snapshot,
                            health |-> health.value]]
          : health \in {evaluateHealth(cfg, forecast, snapshot,
                                       thresholds)} } : TRUE

\* const forecast = forecastRaffle(cfg), for a config that was found.
checkRaffleFound(raffleId, cfg, snapshot, thresholds) ==
    CHOOSE e \in
        { checkRaffleEvaluated(raffleId, cfg, f.value, snapshot, thresholds)
          : f \in {forecastRaffle(cfg)} } : TRUE

checkRaffle(argv, file) ==
    IF noRaffleId(argv)
    THEN Exit(1, <<>>, <<"Usage: checkRaffle <raffleId> ...">>, <<>>)
    ELSE
        LET loaded == loadModelFromXml(file)
        IN  IF loaded.kind = "throw"
            THEN Exit(1, <<>>, <<loaded.error>>, <<"loadModelFromXml">>)
            ELSE
            LET raffleId == argv[1]
                cfg == rafflesGet(loaded.value.raffles, raffleId)
            IN  IF cfg = Undefined
                THEN Exit(1, <<>>, <<"Raffle not found in XML config">>,
                          <<"loadModelFromXml">>)
                ELSE checkRaffleFound(raffleId, cfg, snapshotFromArgv(argv),
                                      loaded.value.thresholds)

\* <baselines> and <thresholds> of the configuration file.
XmlBaselines ==
    [newCustomers |-> [ltv |-> Num(45), targetLtvToCac |-> Fin(5, 2)],
     retention |-> [crr20d |-> Fin(8, 100),
                    gmvPerRetainedUser20d |-> Num(35),
                    baseExistingCustomers |-> Num(100)]]

XmlThresholds ==
    [gmv |-> [green |-> Fin(95, 100), amber |-> Fin(8, 10)],
     retentionProgress |-> [green |-> Fin(95, 100), amber |-> Fin(8, 10)],
     cacOverTarget |-> [green |-> Num(1), amber |-> Fin(12, 10)],
     cpaOverTarget |-> [green |-> Num(1), amber |-> Fin(12, 10)]]

\* One <raffle> node running from day 0 to the given end, in ms.
XmlRaffle(id, start, end) ==
    [id |-> id,
     meta |-> [name |-> id, startDate |-> Num(start), endDate |-> Num(end)],
     targets |-> [targetGmv |-> Num(2000), averageTicketPrice |-> Num(10),
                  expectedAovNew |-> Num(40), expectedAovRet |-> Num(42)],
     budget |-> [total |-> Num(1000), newSplit |-> Fin(3, 4),
                 retSplit |-> Fin(1, 4)]]

\* The configuration files: unreadable, without a root, without one of the
\* three sections, and with one or two raffles (a two-day raffle, a raffle
\* whose end date precedes its start date by one day or by two, two nodes
\* with the same id).
XmlFiles ==
    {[readable |-> FALSE, root |-> Undefined],
     [readable |-> TRUE, root |-> Undefined]}
    \cup
    { [readable |-> TRUE,
       root |-> [baselines |-> b, thresholds |-> t, raffles |-> r]] :
        b \in {XmlBaselines}, t \in {XmlThresholds},
        r \in {<<XmlRaffle("r1", 0, msPerDay)>>,
               <<XmlRaffle("r1", 0, msPerDay),
                 XmlRaffle("r2", msPerDay, 0)>>,
               <<XmlRaffle("r1", 0, msPerDay),
                 XmlRaffle("r2", 2 * msPerDay, 0)>>,
               <<XmlRaffle("r1", 0, 0), XmlRaffle("r1", 0, msPerDay)>>} }
    \cup
    { [readable |-> TRUE,
       root |-> [baselines |-> Undefined, thresholds |-> XmlThresholds,
                 raffles |-> <<XmlRaffle("r1", 0, msPerDay)>>]],
      [readable |-> TRUE,
       root |-> [baselines |-> XmlBaselines, thresholds |-> Undefined,
                 raffles |-> <<XmlRaffle("r1", 0, msPerDay)>>]],
      [readable |-> TRUE,
       root |-> [baselines |-> XmlBaselines, thresholds |-> XmlThresholds,
                 raffles |-> <<>>]] }

\* The command lines: no argument, an empty id, an id alone, and an id
\* followed by a day and by the figures of the day.
Argvs ==
    {<<>>, <<"">>}
    \cup { <<id>> : id \in {"r1", "r2", "r9"} }
    \cup { <<id, day>> :
            id \in {"r1", "r2", "r9"},
            day \in {NumStr(1), NumStr(2), NumStr(3), NumStr(0), NumStr(-1),
                     EmptyStr, TextStr} }
    \cup { <<id, day, gmv, NumStr(10), new, NumStr(1), orders>> :
            id \in {"r1", "r2"}, day \in {NumStr(1), TextStr},
            gmv \in {NumStr(1000), NumStr(100)},
            new \in {NumStr(1), NumStr(0)},
            orders \in {NumStr(1), NumStr(0)} }
    \cup { <<id, NumStr(1), NumStr(1000), NumStr(10), NumStr(1), NumStr(1),
             NumStr(1), acq>> :
            id \in {"r1", "r2"},
            acq \in {NumStr(5), NumStr(100), EmptyStr, NumStr(0)} }

CheckRaffle ==
    /\ op = "idle"
    /\ \E argv \in Argvs, file \in XmlFiles :
        /\ op' = "checkRaffle"
        /\ args' = [argv |-> argv, file |-> file]
        /\ ret' = checkRaffle(argv, file)

---------------------------------------------------------------------------
(* src/unnamed/part_000: createDefaultCampaign                             *)

\* A parameter with a default value: the default stands in for undefined.
defaultParameter(x, default) == IF x.k = "undef" THEN default ELSE x

createDefaultCampaign(durationDays, targetGMV, totalBudget, aov, cac) ==
    LET defaultAOV == defaultParameter(aov, Num(40))
        defaultCAC == defaultParameter(cac, Num(18))
        phaseDuration == MathFloor(NumDiv(durationDays, Num(4)))
        phases ==
            <<[id |-> "launch",
               startDay |-> Num(1),
               endDay |-> phaseDuration,
               targetGMV |-> NumMul(targetGMV, Fin(2, 10)),
               targetCAC |-> NumMul(defaultCAC, Fin(9, 10)),
               expectedAOV |-> defaultAOV,
               budget |-> NumMul(totalBudget, Fin(2, 10))],
              [id |-> "mid",
               startDay |-> NumAdd(phaseDuration, Num(1)),
               endDay |-> NumMul(phaseDuration, Num(2)),
               targetGMV |-> NumMul(targetGMV, Fin(25, 100)),
               targetCAC |-> defaultCAC,
               expectedAOV |-> NumMul(defaultAOV, Fin(105, 100)),
               budget |-> NumMul(totalBudget, Fin(25, 100))],
              [id |-> "push",
               startDay |-> NumAdd(NumMul(phaseDuration, Num(2)), Num(1)),
               endDay |-> NumMul(phaseDuration, Num(3)),
               targetGMV |-> NumMul(targetGMV, Fin(3, 10)),
               targetCAC |-> NumMul(defaultCAC, Fin(11, 10)),
               expectedAOV |-> NumMul(defaultAOV, Fin(11, 10)),
               budget |-> NumMul(totalBudget, Fin(3, 10))],
              [id |-> "final",
               startDay |-> NumAdd(NumMul(phaseDuration, Num(3)), Num(1)),
               endDay |-> durationDays,
               targetGMV |-> NumMul(targetGMV, Fin(25, 100)),
               targetCAC |-> NumMul(defaultCAC, Fin(115, 100)),
               expectedAOV |-> NumMul(defaultAOV, Fin(115, 100)),
               budget |-> NumMul(totalBudget, Fin(25, 100))]>>
    IN  Return([durationDays |-> durationDays,
                targetGMV |-> targetGMV,
                totalBudget |-> totalBudget,
                phases |-> phases])

\* The longest campaign built.
MaxCampaignDays == 12

CreateDefaultCampaign ==
    /\ op = "idle"
    /\ \E days \in 1..MaxCampaignDays,
          gmv \in {Num(1000), Num(0)},
          budget \in {Num(400), Num(0)},
          aov \in {Undefined, Num(50)},
          cac \in {Undefined, Num(20)} :
        /\ op' = "createDefaultCampaign"
        /\ args' = [durationDays |-> Num(days), targetGMV |-> gmv,
                    totalBudget |-> budget, defaultAOV |-> aov,
                    defaultCAC |-> cac]
        /\ ret' = createDefaultCampaign(Num(days), gmv, budget, aov, cac)

---------------------------------------------------------------------------
Init ==
    /\ op = "idle"
    /\ args = [none |-> TRUE]
    /\ ret = [kind |-> "none"]

SpecHealth == Init /\ [][EvaluateHealth]_vars

SpecPhase == Init /\ [][EvaluatePhaseHealth]_vars

SpecForecast == Init /\ [][ForecastRaffle \/ CalculateRaffleNeeds]_vars

SpecStatus == Init /\ [][CompareGmvStatuses]_vars

SpecHttp == Init /\ [][Post]_vars

SpecPlan == Init /\ [][PlanPhase]_vars

SpecTickets == Init /\ [][CalculatePhases \/ ComputePhaseOutput]_vars

SpecCli == Init /\ [][CheckRaffle]_vars

SpecNotes == Init /\ [][EvaluateHealth \/ EvaluatePhaseHealth]_vars

SpecCampaign == Init /\ [][CreateDefaultCampaign]_vars

SpecPurity == Init /\ [][ForecastRaffleTwice \/ EvaluateHealthTwice]_vars

Next ==
    \/ EvaluateHealth
    \/ CompareGmvStatuses
    \/ EvaluatePhaseHealth
    \/ ForecastRaffle
    \/ CalculateRaffleNeeds
    \/ Post
    \/ PlanPhase
    \/ CalculatePhases
    \/ ComputePhaseOutput
    \/ CheckRaffle
    \/ CreateDefaultCampaign
    \/ ForecastRaffleTwice
    \/ EvaluateHealthTwice

Spec == Init /\ [][Next]_vars

---------------------------------------------------------------------------
(* Claims about evaluateHealth, checked under SpecHealth                   *)

HealthCalled == op = "evaluateHealth"
HealthReturned == op = "evaluateHealth" /\ ret.kind = "return"
HealthThrew == op = "evaluateHealth" /\ ret.kind = "throw"

\* C1: evaluateHealth throws the out-of-range error, and returns no
\* HealthStatus, for every snapshot whose dayNumber is 0, negative or
\* greater than forecast.durationDays, whatever the other arguments are.
C1_DayOutOfRangeThrows ==
    HealthCalled =>
        LET k == args.snapshot.dayNumber.n
            D == args.forecast.durationDays.n
        IN  (k <= 0 \/ k > D) =>
                ret = [kind |-> "throw", error |-> "dayNumber out of range"]

\* Day 0 of a campaign with days was evaluated, with orders, customers and
\* a CPA baseline present, and was rejected.
C1_Witness ==
    /\ HealthThrew
    /\ args.snapshot.dayNumber = Num(0)
    /\ args.forecast.durationDays = Num(1)
    /\ args.config.baselineCPANew = Num(10)
    /\ args.snapshot.spendToDate = PInf

\* The projection of the to-date value m at day k of D days: m * D / k,
\* stated by cross-multiplication; a non-finite m stays what it is.
ProjectedFrom(m, p, k, D) ==
    IF IsFinite(m)
    THEN p.k = "fin" /\ p.n * k * m.d = m.n * D * p.d
    ELSE p = m

\* C3: for every accepted snapshot at day k of D days the four projected
\* values are the to-date values times D/k, and at k = D they are the
\* to-date values themselves.
C3_LinearProjection ==
    HealthReturned =>
        LET k == args.snapshot.dayNumber.n
            D == args.forecast.durationDays.n
            s == args.snapshot
            h == ret.value
        IN  /\ ProjectedFrom(s.gmvToDate, h.gmvProjected, k, D)
            /\ ProjectedFrom(s.spendToDate, h.spendProjected, k, D)
            /\ ProjectedFrom(s.newCustomersToDate, h.newCustomersProjected, k, D)
            /\ ProjectedFrom(s.retainedCustomersToDate,
                             h.retainedCustomersProjected, k, D)
            /\ k = D => /\ h.gmvProjected = s.gmvToDate
                        /\ h.spendProjected = s.spendToDate
                        /\ h.newCustomersProjected = s.newCustomersToDate
                        /\ h.retainedCustomersProjected = s.retainedCustomersToDate

\* A snapshot at day 2 of 3 was projected by the multiplier 3/2.
C3_Witness ==
    /\ HealthReturned
    /\ args.snapshot.dayNumber = Num(2)
    /\ args.forecast.durationDays = Num(3)
    /\ args.snapshot.gmvToDate = Num(80)
    /\ ret.value.gmvProjected = Num(120)
    /\ ret.value.newCustomersProjected = Fin(3, 2)

\* The threshold rule of a progress-based status.
ProgressRule(progress, green, amber, status) ==
    /\ ~IsFinite(progress) => status = "RED"
    /\ IsFinite(progress) /\ ~NumLt(progress, green) => status = "GREEN"
    /\ IsFinite(progress) /\ NumLt(progress, green) /\ ~NumLt(progress, amber)
           => status = "AMBER"
    /\ IsFinite(progress) /\ NumLt(progress, green) /\ NumLt(progress, amber)
           => status = "RED"

\* C4: gmvStatus and retentionStatus follow the threshold rule on
\* gmvProgress and retainedProgress: GREEN at or above green, AMBER at or
\* above amber and below green, RED otherwise, and RED when non-finite.
C4_ProgressStatuses ==
    HealthReturned =>
        LET h == ret.value
            t == args.thresholds
        IN  /\ ProgressRule(h.gmvProgress, t.gmvGreen, t.gmvAmber, h.gmvStatus)
            /\ ProgressRule(h.retainedProgress, t.retentionGreen,
                            t.retentionAmber, h.retentionStatus)

\* GMV progress sat exactly on the green threshold and retention progress
\* exactly on the amber one.
C4_Witness ==
    /\ HealthReturned
    /\ args.thresholds = DEFAULT_THRESHOLDS
    /\ ret.value.gmvProgress = args.thresholds.gmvGreen
    /\ ret.value.gmvStatus = "GREEN"
    /\ ret.value.retainedProgress = args.thresholds.retentionAmber
    /\ ret.value.retentionStatus = "AMBER"

\* The rule of an overrun-based status, the ratio actual / target compared
\* by cross-multiplication (the target is positive where it is compared).
OverrunRule(actual, target, greenOver, amberOver, status) ==
    IF IsNullish(actual) \/ ~IsFinite(actual) \/ ~NumGt(target, Num(0))
    THEN status = "RED"
    ELSE LET g == NumMul(greenOver, target)
             a == NumMul(amberOver, target)
         IN  /\ NumLe(actual, g) => status = "GREEN"
             /\ NumGt(actual, g) /\ NumLe(actual, a) => status = "AMBER"
             /\ NumGt(actual, g) /\ NumGt(actual, a) => status = "RED"

\* C5: cacStatus and cpaStatus follow the overrun rule, and are RED when
\* the actual is null or non-finite or the target is non-positive: a
\* targetCACNew <= 0 for CAC, a supplied baselineCPANew <= 0 (0 included)
\* for CPA.
C5_OverrunStatuses ==
    HealthReturned =>
        LET h == ret.value
            t == args.thresholds
        IN  /\ OverrunRule(h.actualCACNew, args.forecast.targetCACNew,
                           t.cacGreenOverTarget, t.cacAmberOverTarget,
                           h.cacStatus)
            /\ args.config.baselineCPANew # Undefined =>
                   OverrunRule(h.actualCPA, args.config.baselineCPANew,
                               t.cpaGreenOverTarget, t.cpaAmberOverTarget,
                               h.cpaStatus)

\* C6: with no baselineCPANew in the config, every accepted snapshot gets
\* cpaStatus AMBER, whatever the spend and the orders to date.
C6_NoBaselineIsAmber ==
    HealthReturned /\ args.config.baselineCPANew = Undefined =>
        ret.value.cpaStatus = "AMBER"

\* No baseline, orders placed and an infinite spend to date: the CPA that
\* any baseline would call RED.
C6_Witness ==
    /\ HealthReturned
    /\ args.config.baselineCPANew = Undefined
    /\ args.snapshot.ordersToDate = Num(1)
    /\ args.snapshot.spendToDate = PInf
    /\ ret.value.actualCPA = PInf
    /\ ret.value.cpaStatus = "AMBER"

\* C7: overallStatus is the worst of gmvStatus, cpaStatus and cacStatus:
\* RED if one is RED, else AMBER if one is AMBER, else GREEN; it is a
\* function of those three alone, so retentionStatus and spendUtilisation
\* never change it.
C7_OverallIsWorstOfThree ==
    HealthReturned =>
        LET h == ret.value
            three == {h.gmvStatus, h.cpaStatus, h.cacStatus}
        IN  h.overallStatus =
                CASE "RED" \in three -> "RED"
                  [] "AMBER" \in three -> "AMBER"
                  [] OTHER -> "GREEN"

\* Retention was RED and the overall status GREEN all the same.
C7_Witness ==
    /\ HealthReturned
    /\ ret.value.retentionStatus = "RED"
    /\ ret.value.overallStatus = "GREEN"

---------------------------------------------------------------------------
(* Claims about evaluatePhaseHealth, checked under SpecPhase               *)

PhaseCalled == op = "evaluatePhaseHealth"
PhaseReturned == op = "evaluatePhaseHealth" /\ ret.kind = "return"

\* C2: evaluatePhaseHealth obeys the day-range rule of evaluateHealth: it
\* throws, and returns no PhaseHealth, whenever snapshot.dayInPhase is 0 or
\* lies outside [1, phase.endDay - phase.startDay + 1].
C2_PhaseDayOutOfRangeThrows ==
    PhaseCalled =>
        LET phase == findPhase(args.campaign.phases, args.snapshot.phaseId)
            day == args.snapshot.dayInPhase.n
        IN  phase # Undefined
            /\ (day < 1 \/ day > phase.endDay.n - phase.startDay.n + 1)
            => ret.kind = "throw"

---------------------------------------------------------------------------
(* Claims about the status of two progress values, under SpecStatus        *)

\* RED < AMBER < GREEN
StatusRank(status) ==
    CASE status = "RED" -> 0
      [] status = "AMBER" -> 1
      [] status = "GREEN" -> 2

\* C8 as stated: for any thresholds and any two GMV progress values
\* p1 <= p2, the status of p2 is never worse than the status of p1.
C8_MonotoneForAnyProgress ==
    op = "statusFromProgress" /\ NumLe(args.p1, args.p2) =>
        StatusRank(ret.s1) <= StatusRank(ret.s2)

\* C8 as amended: for any thresholds and any two finite GMV progress
\* values p1 <= p2, the status of p2 is never worse than the status of p1.
C8_MonotoneForFiniteProgress ==
    op = "statusFromProgress" /\ IsFinite(args.p1) /\ IsFinite(args.p2)
    /\ NumLe(args.p1, args.p2) =>
        StatusRank(ret.s1) <= StatusRank(ret.s2)

\* With green below amber, a larger finite progress moved the status from
\* RED to GREEN.
C8_Witness ==
    /\ op = "statusFromProgress"
    /\ NumLt(args.gmvGreen, args.gmvAmber)
    /\ IsFinite(args.p1) /\ IsFinite(args.p2)
    /\ NumLt(args.p1, args.p2)
    /\ ret.s1 = "RED"
    /\ ret.s2 = "GREEN"

---------------------------------------------------------------------------
(* Claims about the two forecasts, checked under SpecForecast              *)

ForecastReturned == op = "forecastRaffle" /\ ret.kind = "return"
CalculatorReturned == op = "calculateRaffleNeeds" /\ ret.kind = "return"

\* baselineCRR20d * days / 20 for a whole number of days, as one fraction.
ScaledCRR(baselineCRR20d, days) ==
    Fin(baselineCRR20d.n * days.n, baselineCRR20d.d * 20)

\* The rate used at `days` is the scaled rate where that is at most 0.70
\* and 0.70 where it is more; it is never more than 0.70.
CappedAt70(rate, baselineCRR20d, days) ==
    /\ ~NumGt(rate, Fin(7, 10))
    /\ IsFinite(days) =>
          LET scaled == ScaledCRR(baselineCRR20d, days)
          IN  /\ scaled.n * 10 <= 7 * scaled.d => rate = scaled
              /\ scaled.n * 10 > 7 * scaled.d => rate = Fin(7, 10)

\* C9: the retention rate of a forecast never exceeds 0.70: forecastRaffle
\* expects at most 0.70 x baseExistingCustomers retained customers, and
\* calculateRaffleNeeds uses min(baselineCRR20d x days / 20, 0.7) for the
\* whole window and at each quarterly data point.
C9_RetentionRateCapped ==
    /\ ForecastReturned =>
          /\ CappedAt70(ret.locals.CRRWindow, args.baselineCRR20d,
                        ret.value.durationDays)
          /\ ~NumGt(ret.value.expectedRetainedCustomers,
                    NumMul(Fin(7, 10), args.baseExistingCustomers))
    /\ CalculatorReturned =>
          /\ CappedAt70(ret.locals.CRRWindow, args.baselineCRR20d,
                        args.durationDays)
          /\ ~NumGt(ret.locals.expectedReturningUsers,
                    NumMul(Fin(7, 10), args.baseExistingCustomers))
          /\ \A q \in 1..4 :
                LET point == ret.value.quarterlyData[q]
                IN  /\ CappedAt70(point.crrAtDay, args.baselineCRR20d, point.day)
                    /\ ~NumGt(point.cumulativeReturningUsers,
                              NumMul(Fin(7, 10), args.baseExistingCustomers))

\* A 200-day calculation whose scaled rate, 0.08 x 10, was cut to 0.70 for
\* the window and reached the cap only in the last quarters.
C9_Witness ==
    /\ CalculatorReturned
    /\ args.durationDays = Num(200)
    /\ args.baselineCRR20d = Fin(8, 100)
    /\ args.baseExistingCustomers = Num(5000)
    /\ ret.locals.CRRWindow = Fin(7, 10)
    /\ ret.locals.expectedReturningUsers = Num(3500)
    /\ ret.value.quarterlyData[1].crrAtDay = Fin(2, 10)
    /\ ret.value.quarterlyData[4].crrAtDay = Fin(7, 10)

\* Expected new customers from a budget and a target CAC: the quotient for
\* a positive target, 0 for a target that is zero or negative.
GuardedQuotient(expected, budget, targetCAC) ==
    /\ NumGt(targetCAC, Num(0)) /\ IsFinite(targetCAC) =>
          expected = Fin(budget.n * targetCAC.d, budget.d * targetCAC.n)
    /\ NumLe(targetCAC, Num(0)) => expected = Num(0)

\* C10: in forecastRaffle and in calculateRaffleNeeds the expected number
\* of new customers is (total budget x budgetSplitNew) / target CAC for a
\* target CAC > 0 and 0 for a target CAC <= 0.
C10_NewCustomersGuarded ==
    /\ ForecastReturned =>
          GuardedQuotient(ret.value.expectedNewCustomers,
                          NumMul(args.marketingBudgetTotal, args.budgetSplitNew),
                          ret.value.targetCACNew)
    /\ CalculatorReturned =>
          GuardedQuotient(ret.locals.expectedNewUsers,
                          NumMul(args.marketingBudget, args.budgetSplitNew),
                          ret.locals.targetCACNew)

---------------------------------------------------------------------------
(* C11: an explicit target CAC overrides the LTV-derived one               *)

PostCalled == op = "POST"
PostAnswered200 == PostCalled /\ ret.status = 200

\* A target CAC is present when the field holds a value: it is neither
\* absent (undefined) nor null.
OverridePresent(x) == ~IsNullish(x)

\* C11: the target CAC used for the forecast is the supplied targetCAC
\* whenever one is present in the calculator input or in the request body,
\* and baselineLTVNew / targetLTVToCAC (18 with the default baselines) only
\* when none is present.
C11_OverrideTakesPrecedence ==
    /\ CalculatorReturned =>
         ret.locals.targetCACNew =
            (IF OverridePresent(args.targetCAC)
             THEN args.targetCAC
             ELSE NumDiv(args.baselineLTVNew, args.targetLTVToCAC))
    /\ PostAnswered200 =>
         ret.locals.targetCACNew =
            (IF OverridePresent(args.targetCAC)
             THEN ToNumber(args.targetCAC)
             ELSE Num(18))

---------------------------------------------------------------------------
(* C12: forecastRaffle and evaluateHealth are pure                         *)

CalledTwice == op \in {"forecastRaffleTwice", "evaluateHealthTwice"}

---------------------------------------------------------------------------
(* C13: the worked example of the forecast path                            *)

\* The example input: its six baselines are the default ones.
ExampleInput ==
    /\ CalculatorReturned
    /\ args.targetGMV = Num(100000)
    /\ args.expectedAOVNew = Num(40)
    /\ args.marketingBudget = Num(15000)
    /\ args.durationDays = Num(20)
    /\ args.targetCAC = Num(18)
    /\ [f \in DOMAIN DEFAULT_BASELINES |-> args[f]] = DEFAULT_BASELINES

\* C13: for targetGMV 100000, expectedAOVNew 40, marketingBudget 15000,
\* durationDays 20, targetCAC 18 and the default baselines, the calculator
\* computes budgetForNew = 11250, budgetForRetention = 3750 and
\* expectedNewUsers = 11250 / 18 = 625 before rounding and gap adjustment.
C13_ExampleFigures ==
    ExampleInput =>
        /\ ret.locals.budgetForNew = Num(11250)
        /\ ret.locals.budgetForRetention = Num(3750)
        /\ ret.locals.targetCACNew = Num(18)
        /\ ret.locals.expectedNewUsers = Num(625)

\* The example was computed; the gap adjustment then raises the new users
\* above the 625 expected from the budget.
C13_Witness ==
    /\ ExampleInput
    /\ ret.locals.expectedNewUsers = Num(625)
    /\ NumGt(ret.value.newUsersNeeded, Num(625))

---------------------------------------------------------------------------
(* C14: planPhase                                                          *)

PlanReturned == op = "planPhase" /\ ret.kind = "return"

\* n is the quotient a / b of two finite numbers, b > 0, rounded to the
\* nearest integer with halves upwards: n - 1/2 <= a / b < n + 1/2.
RoundedQuotient(n, a, b) ==
    /\ n.k = "fin" /\ n.d = 1
    /\ NumLe(NumMul(NumSub(NumMul(Num(2), n), Num(1)), b), NumMul(Num(2), a))
    /\ NumLt(NumMul(Num(2), a), NumMul(NumAdd(NumMul(Num(2), n), Num(1)), b))

PositivePhase ==
    /\ IsFinite(args.budget)
    /\ NumGt(args.targetCAC, Num(0))
    /\ NumGt(args.expectedAOV, Num(0))

\* C14: planPhase returns plannedNewUsers = round(budget / targetCAC),
\* plannedOrders = round(targetGMV / expectedAOV) and plannedReturningOrders
\* = round(max(0, targetGMV / expectedAOV - budget / targetCAC)) from the
\* unrounded ratios; plannedReturningOrders is negative for no phase; the
\* phase {budget 20000, targetCAC 18, targetGMV 50000, expectedAOV 40}
\* gives 1111, 1250 and 139.
C14_PlanPhase ==
    PlanReturned =>
        /\ ~NumLt(ret.value.plannedReturningOrders, Num(0))
        /\ PositivePhase =>
            LET returning ==
                    NumSub(NumMul(args.targetGMV, args.targetCAC),
                           NumMul(args.budget, args.expectedAOV))
                both == NumMul(args.targetCAC, args.expectedAOV)
            IN  /\ RoundedQuotient(ret.value.plannedNewUsers,
                                   args.budget, args.targetCAC)
                /\ RoundedQuotient(ret.value.plannedOrders,
                                   args.targetGMV, args.expectedAOV)
                /\ IF NumGt(returning, Num(0))
                   THEN RoundedQuotient(ret.value.plannedReturningOrders,
                                        returning, both)
                   ELSE ret.value.plannedReturningOrders = Num(0)
        /\ (/\ args.budget = Num(20000) /\ args.targetCAC = Num(18)
            /\ args.targetGMV = Num(50000) /\ args.expectedAOV = Num(40))
           => /\ ret.value.plannedNewUsers = Num(1111)
              /\ ret.value.plannedOrders = Num(1250)
              /\ ret.value.plannedReturningOrders = Num(139)

\* A phase of 2.5 orders and 1.4 new users was planned: 1 returning order
\* from the unrounded ratios, where the rounded counts differ by 2.
C14_Witness ==
    /\ PlanReturned
    /\ args.targetGMV = Num(100) /\ args.expectedAOV = Num(40)
    /\ args.budget = Num(7) /\ args.targetCAC = Num(5)
    /\ ret.value.plannedOrders = Num(3)
    /\ ret.value.plannedNewUsers = Num(1)
    /\ ret.value.plannedReturningOrders = Num(1)

---------------------------------------------------------------------------
(* C15: calculatePhases rejects non-positive campaign totals               *)

PhasesCalled == op = "calculatePhases"
PhasesReturned == PhasesCalled /\ ret.kind = "return"
PhasesThrew == PhasesCalled /\ ret.kind = "throw"

\* C15: calculatePhases throws its input error, and returns no allocation,
\* whenever GMV_total, AOV_total or Budget_total is <= 0, a Budget_total of
\* exactly 0 included.
C15_NonPositiveTotalsRejected ==
    PhasesCalled =>
        ((\/ NumLe(args.campaign.GMV_total, Num(0))
          \/ NumLe(args.campaign.AOV_total, Num(0))
          \/ NumLe(args.campaign.Budget_total, Num(0)))
         => ret.kind = "throw")

---------------------------------------------------------------------------
(* C16: the final budgets sum to the campaign budget                       *)

\* Some phase of the call is paid: its intensity is not "none".
SomePaidPhase ==
    \E i \in DOMAIN args.phaseInputs : args.phaseInputs[i].cacLevel # "none"

\* The sum of the budgetFinal values of the returned phases.
SumOfFinalBudgets == reduceSum(ret.value.phases, "budgetFinal")

BudgetsSumToTotal ==
    /\ SumOfFinalBudgets = args.campaign.Budget_total
    /\ ret.value.budget_final_sum = args.campaign.Budget_total

\* C16 as stated: with at least one phase whose intensity is not "none",
\* the budgetFinal values sum to Budget_total, and so does
\* budget_final_sum, for every choice of phase GMV and ticket targets.
C16_PaidPhasesSumToTotal ==
    (PhasesReturned /\ SomePaidPhase) => BudgetsSumToTotal

\* C16 amended: the budgetFinal values sum to Budget_total, and so does
\* budget_final_sum, whenever the raw budgets sum to a positive value.
C16_PositiveRawSumToTotal ==
    (PhasesReturned /\ NumGt(ret.locals.budget_raw_sum, Num(0)))
        => BudgetsSumToTotal

\* Two paid phases with different raw budgets were scaled to a budget that
\* differs from their raw sum.
C16_Witness ==
    /\ PhasesReturned
    /\ Len(ret.value.phases) = 2
    /\ NumGt(ret.value.phases[1].budgetRaw, Num(0))
    /\ NumGt(ret.value.phases[2].budgetRaw, ret.value.phases[1].budgetRaw)
    /\ ret.locals.budget_raw_sum # args.campaign.Budget_total
    /\ NumGt(args.campaign.Budget_total, Num(0))
    /\ BudgetsSumToTotal

---------------------------------------------------------------------------
(* C17: nothing to scale                                                   *)

AllPhasesZero ==
    \A i \in DOMAIN ret.value.phases :
        /\ ret.value.phases[i].budgetFinal = Num(0)
        /\ ret.value.phases[i].cacEffective = Num(0)

\* C17: if every phase has intensity "none", and more generally if the
\* raw budgets sum to <= 0, every budgetFinal and cacEffective is exactly
\* 0, budget_final_sum and CAC_effective_overall are 0 and no scale factor
\* is computed.
C17_NoSpendIsAllZero ==
    (PhasesReturned /\ (~SomePaidPhase \/ NumLe(ret.locals.budget_raw_sum, Num(0))))
        => /\ AllPhasesZero
           /\ ret.value.budget_final_sum = Num(0)
           /\ ret.value.CAC_effective_overall = Num(0)
           /\ ~ret.locals.scaled
           /\ ret.locals.scale = Null

\* A paid phase without GMV beside an organic phase with orders: the raw
\* budgets sum to exactly 0 although the campaign has a budget and orders.
C17_Witness ==
    /\ PhasesReturned
    /\ SomePaidPhase
    /\ ret.locals.budget_raw_sum = Num(0)
    /\ NumGt(ret.value.orders_phases_sum, Num(0))
    /\ NumGt(args.campaign.Budget_total, Num(0))
    /\ AllPhasesZero

---------------------------------------------------------------------------
(* C18: one common scale factor                                            *)

ScaledAllocation ==
    PhasesReturned /\ NumGt(ret.locals.budget_raw_sum, Num(0))

\* q is the quotient a / b of finite numbers, b # 0, stated without division.
IsQuotient(q, a, b) == IsFinite(q) /\ NumMul(q, b) = a

\* C18: when the raw budgets sum to a positive value, one factor
\* scale = Budget_total / sum of raw budgets is applied to every phase:
\* budgetFinal = budgetRaw x scale; a phase with orders has cacEffective =
\* budgetFinal / ordersTarget = cacNominal x scale and a phase without
\* orders has cacEffective 0; the final budgets of any two phases are in the
\* ratio of their raw budgets; CAC_effective_overall is budget_final_sum /
\* orders_phases_sum, and 0 when there are no orders.
C18_CommonScale ==
    ScaledAllocation =>
        LET scale == ret.locals.scale
            phases == ret.value.phases
        IN  /\ IsQuotient(scale, args.campaign.Budget_total,
                          ret.locals.budget_raw_sum)
            /\ \A i \in DOMAIN phases :
                /\ phases[i].budgetRaw =
                       NumMul(phases[i].cacNominal, phases[i].ordersTarget)
                /\ phases[i].budgetFinal = NumMul(phases[i].budgetRaw, scale)
                /\ IF NumGt(phases[i].ordersTarget, Num(0))
                   THEN /\ IsQuotient(phases[i].cacEffective,
                                      phases[i].budgetFinal,
                                      phases[i].ordersTarget)
                        /\ phases[i].cacEffective =
                               NumMul(phases[i].cacNominal, scale)
                   ELSE phases[i].cacEffective = Num(0)
            /\ \A i, j \in DOMAIN phases :
                NumMul(phases[i].budgetFinal, phases[j].budgetRaw) =
                    NumMul(phases[j].budgetFinal, phases[i].budgetRaw)
            /\ IF NumGt(ret.value.orders_phases_sum, Num(0))
               THEN IsQuotient(ret.value.CAC_effective_overall,
                               ret.value.budget_final_sum,
                               ret.value.orders_phases_sum)
               ELSE ret.value.CAC_effective_overall = Num(0)

\* Two paid phases of different nominal CAC were scaled by a factor other
\* than 1; the phase of the higher nominal CAC keeps the higher effective CAC.
C18_Witness ==
    /\ ScaledAllocation
    /\ Len(ret.value.phases) = 2
    /\ ret.locals.scale # Num(1)
    /\ NumGt(ret.value.phases[1].ordersTarget, Num(0))
    /\ NumGt(ret.value.phases[2].ordersTarget, Num(0))
    /\ NumGt(ret.value.phases[1].cacNominal, Num(0))
    /\ NumGt(ret.value.phases[2].cacNominal, ret.value.phases[1].cacNominal)
    /\ NumGt(ret.value.phases[2].cacEffective, ret.value.phases[1].cacEffective)

---------------------------------------------------------------------------
(* C19: ticket price                                                       *)

PhaseOutputReturned == op = "computePhaseOutput" /\ ret.kind = "return"

\* price is gmv / tickets, and 0 when tickets is 0.
TicketPriceRule(price, gmv, tickets) ==
    /\ IsFinite(price)
    /\ IF tickets = Num(0) THEN price = Num(0)
       ELSE NumMul(price, tickets) = gmv

\* C19: in calculatePhases and in computePhaseOutput a phase's ticket price
\* is its GMV target divided by its tickets target, and 0 when the tickets
\* target is 0; no phase output carries a non-finite ticket price, nor a
\* non-finite discount when the base ticket price is positive.
C19_TicketPriceGuarded ==
    /\ PhasesReturned =>
         \A i \in DOMAIN ret.value.phases :
            TicketPriceRule(ret.value.phases[i].ticketPrice,
                            ret.value.phases[i].gmvTarget,
                            ret.value.phases[i].ticketsTarget)
    /\ PhaseOutputReturned =>
         /\ TicketPriceRule(ret.value.avgTicketPrice, args.phase.expectedGMV,
                            args.phase.ticketsTarget)
         /\ NumGt(args.campaign.baseTicketPrice, Num(0))
                => IsFinite(ret.value.discountPercent)

---------------------------------------------------------------------------
(* C20: zero denominators in evaluateHealth                                *)

\* ratio is numerator / denominator, and 0 when the denominator is <= 0.
DefendedRatio(ratio, numerator, denominator) ==
    IF NumLe(denominator, Num(0)) THEN ratio = Num(0)
    ELSE ratio = NumDiv(numerator, denominator)

\* cost is spend / count, and null when the count is 0.
DefendedCost(cost, spend, count) ==
    IF count = Num(0) THEN cost = Null
    ELSE cost = NumDiv(spend, count)

\* C20: in every returned status gmvProgress, newUserProgress,
\* retainedProgress and spendUtilisation are 0 when the forecast or budget
\* they divide by is <= 0 and the projected value over it otherwise;
\* actualCPA is null when ordersToDate is 0 and spendToDate / ordersToDate
\* otherwise; actualCACNew is null when newCustomersToDate is 0 and the
\* acquisition spend / newCustomersToDate otherwise, the acquisition spend
\* being acquisitionSpendToDate if supplied and spendToDate if not.
C20_ZeroDenominatorsDefended ==
    HealthReturned =>
        /\ DefendedRatio(ret.value.gmvProgress, ret.value.gmvProjected,
                         args.forecast.gmvTotalForecast)
        /\ DefendedRatio(ret.value.newUserProgress,
                         ret.value.newCustomersProjected,
                         args.forecast.expectedNewCustomers)
        /\ DefendedRatio(ret.value.retainedProgress,
                         ret.value.retainedCustomersProjected,
                         args.forecast.expectedRetainedCustomers)
        /\ DefendedRatio(ret.value.spendUtilisation, ret.value.spendProjected,
                         args.config.marketingBudgetTotal)
        /\ DefendedCost(ret.value.actualCPA, args.snapshot.spendToDate,
                        args.snapshot.ordersToDate)
        /\ DefendedCost(ret.value.actualCACNew,
                        IF args.snapshot.acquisitionSpendToDate = Undefined
                        THEN args.snapshot.spendToDate
                        ELSE args.snapshot.acquisitionSpendToDate,
                        args.snapshot.newCustomersToDate)

\* A status was returned for a campaign without budget and without
\* expected new customers, on a day without orders and new customers.
C20_Witness ==
    /\ HealthReturned
    /\ args.config.marketingBudgetTotal = Num(0)
    /\ args.forecast.expectedNewCustomers = Num(0)
    /\ args.snapshot.ordersToDate = Num(0)
    /\ args.snapshot.newCustomersToDate = Num(0)
    /\ NumGt(args.snapshot.spendToDate, Num(0))
    /\ ret.value.spendUtilisation = Num(0)
    /\ ret.value.actualCPA = Null
    /\ ret.value.actualCACNew = Null

---------------------------------------------------------------------------
(* C21: the statuses of evaluatePhaseHealth                                *)

\* The phase the snapshot names, and a day of that phase.
SnapshotPhase == findPhase(args.campaign.phases, args.snapshot.phaseId)

PhaseDayInRange ==
    /\ PhaseReturned
    /\ args.snapshot.dayInPhase.n >= 1
    /\ args.snapshot.dayInPhase.n <=
           SnapshotPhase.endDay.n - SnapshotPhase.startDay.n + 1

\* The status the campaign evaluator's rules give: the worse of the GMV
\* status by progress (cutoffs 0.95 and 0.8) and the CAC status by overrun
\* (cutoffs 1.0 and 1.2), the actual CAC being null without new users.
StatusByEvaluatorRules(gmvToDate, factor, targetGMV, spend, newUsers, targetCAC) ==
    LET progress == NumDiv(NumMul(gmvToDate, factor), targetGMV)
        actualCAC ==
            IF NumGt(newUsers, Num(0)) THEN NumDiv(spend, newUsers) ELSE Null
    IN  overallStatusOf(
            <<statusFromProgress(progress, Fin(95, 100), Fin(8, 10)),
              statusFromOverrun(actualCAC, targetCAC, Num(1), Fin(12, 10))>>)

\* C21: phaseStatus and campaignStatus follow the progress and overrun
\* rules of the campaign evaluator (GMV cutoffs 0.95/0.8, CAC cutoffs
\* 1.0/1.2, worst constituent): a non-finite GMV progress is RED, and a CAC
\* without new users to date or with a non-positive target CAC is RED.
C21_PhaseStatusesFollowEvaluatorRules ==
    PhaseDayInRange =>
        LET phase == SnapshotPhase
            snapshot == args.snapshot
            cumulative == args.cumulativeStatsToDate
            phaseDuration ==
                NumAdd(NumSub(phase.endDay, phase.startDay), Num(1))
            daysElapsed ==
                NumAdd(NumSub(phase.startDay, Num(1)), snapshot.dayInPhase)
            campaignTargetCAC ==
                NumDiv(args.campaign.totalBudget,
                       NumMul(NumDiv(args.campaign.targetGMV, phase.expectedAOV),
                              Fin(7, 10)))
        IN  /\ ret.value.phaseStatus =
                   StatusByEvaluatorRules(
                       snapshot.gmvToDate,
                       NumDiv(phaseDuration, snapshot.dayInPhase),
                       phase.targetGMV, snapshot.spendToDate,
                       snapshot.newUsersToDate, phase.targetCAC)
            /\ ret.value.campaignStatus =
                   StatusByEvaluatorRules(
                       cumulative.gmvToDate,
                       NumDiv(args.campaign.durationDays, daysElapsed),
                       args.campaign.targetGMV, cumulative.spendToDate,
                       cumulative.newUsersToDate, campaignTargetCAC)

---------------------------------------------------------------------------
(* C22: the command-line entry point without an id or with an unknown id   *)

CliCalled == op = "checkRaffle"

\* No campaign identifier on the command line.
IdMissing == Len(args.argv) = 0 \/ args.argv[1] = ""

\* The configuration file loads.
FileLoads ==
    /\ args.file.readable
    /\ args.file.root # Undefined
    /\ args.file.root.baselines # Undefined
    /\ args.file.root.thresholds # Undefined
    /\ args.file.root.raffles # <<>>

\* The identifier is the id of a raffle of the loaded file.
IdKnown ==
    /\ ~IdMissing
    /\ FileLoads
    /\ \E i \in DOMAIN args.file.root.raffles :
          args.file.root.raffles[i].id = args.argv[1]

IdUnknown == ~IdMissing /\ FileLoads /\ ~IdKnown

CliCalledFunction(f) == \E i \in DOMAIN ret.calls : ret.calls[i] = f

\* C22: when no identifier is given, and when the identifier is not among
\* the loaded configs, the process exits with code 1, calls neither
\* forecastRaffle nor evaluateHealth and prints no result document; a
\* forecast, an evaluation or a printed document occurs only for a known
\* identifier.
C22_ExitsWithoutForecast ==
    CliCalled =>
        /\ (IdMissing \/ IdUnknown) =>
              /\ ret.code = 1
              /\ ~CliCalledFunction("forecastRaffle")
              /\ ~CliCalledFunction("evaluateHealth")
              /\ ret.stdout = <<>>
        /\ (\/ CliCalledFunction("forecastRaffle")
            \/ CliCalledFunction("evaluateHealth")
            \/ ret.stdout # <<>>) => IdKnown
        /\ (IdKnown /\ ret.code = 0) =>
              /\ ret.calls = <<"loadModelFromXml", "forecastRaffle",
                               "evaluateHealth">>
              /\ Len(ret.stdout) = 1

C22_Witness ==
    /\ CliCalled
    /\ IdUnknown
    /\ ret.code = 1
    /\ ret.calls = <<"loadModelFromXml">>
    /\ ret.stdout = <<>>

---------------------------------------------------------------------------
(* C23: the answers of the calculate endpoint                              *)

\* A field the body does not carry (or carries as null).
FieldMissing(x) == IsNullish(x)

SomeRequiredFieldMissing ==
    \/ FieldMissing(args.targetGMV)
    \/ FieldMissing(args.expectedAOVNew)
    \/ FieldMissing(args.marketingBudget)
    \/ FieldMissing(args.durationDays)

\* C23: the endpoint answers 400 exactly when one of targetGMV,
\* expectedAOVNew, marketingBudget, durationDays is missing from the body,
\* 500 when the body cannot be read, and in every other case the calculator
\* result for the body's figures with the default baselines.
C23_StatusByMissingFields ==
    PostCalled =>
        /\ (args.json # "object") => ret.status = 500
        /\ (args.json = "object") =>
              /\ (ret.status = 400) <=> SomeRequiredFieldMissing
              /\ ret.status # 400 =>
                    /\ ret.status = 200
                    /\ ret.body =
                         JsonResult(
                           calculateRaffleNeeds(calculatorInputOf(args)).value)

---------------------------------------------------------------------------
(* C24 .. C27: the recommendations of evaluatePhaseHealth                  *)

PhaseIssue(issue) == SeqIncludes(ret.locals.phaseIssues, issue)

PhaseNote(tag) ==
    \E i \in DOMAIN ret.value.notes : ret.value.notes[i].tag = tag

PhaseGmvRedOrAmber == PhaseIssue("gmv_red") \/ PhaseIssue("gmv_amber")

PhaseCacGreen == ~PhaseIssue("cac_red") /\ ~PhaseIssue("cac_amber")

\* C24: whenever the phase GMV status is RED or AMBER and the phase CAC
\* status is GREEN, the notes contain the raise-AOV recommendation.
C24_RaiseAovWhenGmvLowCacGreen ==
    PhaseReturned =>
        (PhaseGmvRedOrAmber /\ PhaseCacGreen => PhaseNote("raise_aov"))

PhaseHealthyCampaignUnhealthy ==
    /\ ret.locals.phaseIssues = <<>>
    /\ ret.value.phaseStatus = "GREEN"
    /\ ret.value.campaignStatus \in {"AMBER", "RED"}

\* C25: the later-phases recommendation and its shortfall are emitted
\* exactly when the phase has no issue while the campaign roll-up is AMBER
\* or RED, and never for a phase whose own status is AMBER or RED.
C25_LaterPhasesOnlyForHealthyPhase ==
    PhaseReturned =>
        /\ PhaseNote("later_phases") <=> PhaseHealthyCampaignUnhealthy
        /\ PhaseNote("shortfall") <=> PhaseHealthyCampaignUnhealthy
        /\ ret.value.phaseStatus \in {"AMBER", "RED"}
              => ~PhaseNote("later_phases")

\* C27: the notes are never empty, their last element is the projection
\* summary of the phase's projected GMV against its target GMV, and no
\* other note is a projection summary.
C27_SummaryIsLast ==
    PhaseReturned =>
        LET notes == ret.value.notes
        IN  /\ Len(notes) >= 1
            /\ notes[Len(notes)] =
                   Note("summary", MathRound(ret.locals.gmvPhaseProjected),
                        SnapshotPhase.targetGMV)
            /\ \A i \in 1..(Len(notes) - 1) : notes[i].tag # "summary"

C27_Witness ==
    /\ PhaseReturned
    /\ Len(ret.value.notes) = 4
    /\ PhaseNote("gmv_tracking")
    /\ PhaseNote("later_phases")
    /\ ret.value.notes[4].tag = "summary"

---------------------------------------------------------------------------
(* C26: the positive confirmation when no issue is detected                *)

HealthAllGreen ==
    /\ op = "evaluateHealth"
    /\ ret.kind = "return"
    /\ ret.value.gmvStatus = "GREEN"
    /\ ret.value.cpaStatus = "GREEN"
    /\ ret.value.cacStatus = "GREEN"
    /\ ret.value.retentionStatus = "GREEN"

PhaseNoIssue ==
    /\ PhaseReturned
    /\ ret.locals.phaseIssues = <<>>
    /\ ret.locals.campaignIssues = <<>>

\* C26: whenever an evaluation detects no issue at all, the returned notes
\* contain a positive confirmation: for evaluatePhaseHealth when the phase
\* and campaign issue lists are both empty, for evaluateHealth when the
\* gmv, cpa, cac and retention statuses are all GREEN.
C26_PositiveConfirmationWhenNoIssue ==
    /\ PhaseNoIssue => PhaseNote("on_track")
    /\ HealthAllGreen => ret.value.notes # <<>>

---------------------------------------------------------------------------
(* C28: the phases of createDefaultCampaign                                *)

CampaignCreated == op = "createDefaultCampaign" /\ ret.kind = "return"

\* C28: for every positive integer durationDays the four phases have
\* 1 <= startDay <= endDay, the first starts on day 1, each later phase
\* starts on the day after the previous one ends, and the last ends on
\* durationDays.
C28_DefaultPhasesCoverCampaign ==
    CampaignCreated =>
        LET phases == ret.value.phases
        IN  /\ Len(phases) = 4
            /\ \A i \in 1..4 :
                  /\ NumLe(Num(1), phases[i].startDay)
                  /\ NumLe(phases[i].startDay, phases[i].endDay)
            /\ phases[1].startDay = Num(1)
            /\ \A i \in 2..4 :
                  phases[i].startDay = NumAdd(phases[i - 1].endDay, Num(1))
            /\ phases[4].endDay = args.durationDays

---------------------------------------------------------------------------
(* C29: the health result on the command-line path                         *)

CliEvaluated == CliCalled /\ ret.code = 0

\* C29: on the command-line path every loaded config has baselineCPANew
\* undefined, so every health result that is produced has cpaStatus AMBER
\* and an overallStatus of AMBER or RED, never GREEN.
C29_CliNeverGreen ==
    /\ CliCalled /\ Len(ret.calls) = 3 =>
          ret.locals.config.baselineCPANew = Undefined
    /\ CliEvaluated =>
          /\ ret.locals.health.cpaStatus = "AMBER"
          /\ ret.locals.health.overallStatus \in {"AMBER", "RED"}
          /\ ret.stdout[1].health.cpaStatus = "AMBER"
          /\ ret.stdout[1].health.overallStatus \in {"AMBER", "RED"}

\* Every other status is GREEN, so the overall AMBER comes from the CPA.
C29_Witness ==
    /\ CliEvaluated
    /\ ret.locals.health.gmvStatus = "GREEN"
    /\ ret.locals.health.cacStatus = "GREEN"
    /\ ret.locals.health.retentionStatus = "GREEN"
    /\ ret.locals.health.cpaStatus = "AMBER"
    /\ ret.locals.health.overallStatus = "AMBER"

---------------------------------------------------------------------------
(* C30: a config whose end date precedes its start date                    *)

\* The forecast of the config found has a duration of 0 days or fewer.
CliDurationNotPositive ==
    /\ CliCalled
    /\ Len(ret.calls) = 3
    /\ ret.locals.forecast.durationDays =
           computeDurationDays(ret.locals.config.startDate,
                               ret.locals.config.endDate)
    /\ NumLe(ret.locals.forecast.durationDays, Num(0))

\* C30: when the forecast's durationDays is not positive, evaluateHealth
\* rejects the snapshot with the range error whatever its dayNumber is, and
\* no health status is produced.
C30_NonPositiveDurationRejectsAll ==
    CliDurationNotPositive =>
        /\ ret.code = 1
        /\ ret.stderr = <<"dayNumber out of range">>
        /\ ret.stdout = <<>>
        /\ "health" \notin DOMAIN ret.locals

====
